---------------------------- MODULE Spec2Model ----------------------------
(***************************************************************************)
(* Model of the cs2-stat scraping pipeline (package server):               *)
(*   FetchAndScrape            orchestrator of one run                      *)
(*   getPlayerDetailsWithWorkers / worker      identity lookups             *)
(*   scrapeMatchLinksWithWorkers / matchLinkWorker   link discovery         *)
(*   scrapeMatchesWithWorkers / matchesWorker  extraction and assembly      *)
(*   getAverageMatchStats      aggregation                                  *)
(* Channels are bounded FIFO sequences with a closed flag.  The workers of  *)
(* a pool are anonymous goroutines running the same loop, so a pool is      *)
(* the number of workers waiting at the range statement, the bag of jobs    *)
(* whose external call is in flight, and the number of workers that have    *)
(* returned.  The external pages are an oracle fixed when a run starts.     *)
(***************************************************************************)
EXTENDS Integers, Sequences, FiniteSets, Bags, TLC

VARIABLES
    startPos,        \* parameter of FetchAndScrape: leaderboard offset
    faceitLimit,     \* parameter of FetchAndScrape: leaderboard page size
    pc,              \* position of the goroutine running FetchAndScrape
    err,             \* error returned by FetchAndScrape ("nil" or its kind)
    ctxDone,         \* ctx of FetchAndScrape (5 minute deadline) is done
    scrapeCtxDone,   \* scrapeCtx of FetchAndScrapeJob is done
    oracle,          \* what the external collaborators answer, per locator
    playerIDs,       \* ids taken from the leaderboard page
    playerDetails,   \* result of getPlayerDetailsWithWorkers
    upserted,        \* players handed to CreatePlayer so far, in order
    playersTable,    \* table players: the rows CreatePlayer has stored
    openTabs,        \* tab contexts made by chromedp.NewContext and not yet cancelled
    leetifyURLs,     \* profile locators built from playerDetails
    pool,            \* which worker pool is running
    enq,             \* number of jobs the current stage has enqueued
    jobs,            \* buffer of the jobs channel
    jobsClosed,      \* close(jobs) has been executed
    results,         \* buffer of the results channel
    resultsClosed,   \* close(results) has been executed
    idle,            \* number of workers waiting at  range jobs
    busy,            \* bag of the jobs whose external call is in flight
    exited,          \* number of workers that have returned
    wg,              \* sync.WaitGroup counter
    closer,          \* goroutine  wg.Wait(); close(results)
    players,         \* collector slice of getPlayerDetailsWithWorkers
    matchLinks,      \* collector slice of scrapeMatchLinksWithWorkers
    uniqueMatchLinks,\* value returned by scrapeMatchLinksWithWorkers
    allMatches,      \* collector slice of scrapeMatchesWithWorkers
    matches,         \* value returned by scrapeMatchesWithWorkers
    avgMatchStats,   \* value returned by getAverageMatchStats
    inserted,        \* batch handed to BatchInsertMatches
    attempts         \* external calls begun so far: <<pool, locator>>

vars == <<startPos, faceitLimit, pc, err, ctxDone, scrapeCtxDone, oracle, playerIDs, playerDetails,
          upserted, playersTable, openTabs, leetifyURLs, pool, enq, jobs, jobsClosed, results,
          resultsClosed, idle, busy, exited, wg, closer, players, matchLinks,
          uniqueMatchLinks, allMatches, matches, avgMatchStats, inserted,
          attempts>>

-----------------------------------------------------------------------------
(* Program constants *)

numWorkers == 5

minValidPlayers == 10

teamSize == 5

leetifyUserURL == "https://leetify.com/app/profile/"

tieIndicator == "TIE"

maxLimit == 50

-----------------------------------------------------------------------------
(* Bounds of the model *)

\* rows of a scraped table, empty ones included
MaxRows == 12

\* empty rows inside one scraped table
MaxEmpty == 2

\* Matches in one batch given to getAverageMatchStats
MaxBatch == 2

\* records in one batch given to BatchInsertMatches on its own
MaxStored == 3

\* distinct cell texts the 5 values of one averaged field are drawn from
MaxTexts == 3

\* match locators given to scrapeMatchesWithWorkers on its own
MaxJobs == 2

\* links in one result of a discovery worker
MaxLinks == 2

\* results the discovery collector receives
MaxLists == 2

\* largest page size FetchAndScrape is called with
MaxPlayers == 2

-----------------------------------------------------------------------------
(* Sequences and numbers *)

Min(a, b) == IF a < b THEN a ELSE b

Range(s) == {s[i] : i \in DOMAIN s}

RECURSIVE Concat(_)
Concat(ss) == IF ss = <<>> THEN <<>> ELSE Head(ss) \o Concat(Tail(ss))

NoDup(s) == \A i, j \in DOMAIN s : i # j => s[i] # s[j]

\* number of positions of s holding x
Count(s, x) == Cardinality({i \in DOMAIN s : s[i] = x})

\* s and t hold the same elements the same number of times
SameBag(s, t) ==
    /\ Len(s) = Len(t)
    /\ \A x \in Range(s) \cup Range(t) : Count(s, x) = Count(t, x)

-----------------------------------------------------------------------------
(* strconv.ParseFloat(s, 64) and float64 arithmetic.  A finite float64 is  *)
(* [kind |-> "num", m, e] with the value m * 2^e: m is the 53-bit          *)
(* significand (2^52 <= m < 2^53) as a natural number in limbs of 27 bits,  *)
(* least significant first, and <<>> for zero.  The other kinds are "nan"   *)
(* and "inf"; every value of the model is non-negative.  Addition and       *)
(* division round to nearest, ties to even, as IEEE 754 does; subnormal     *)
(* results do not occur for the values of the model.                        *)

Limb == 134217728

\* x without its leading zero limbs
RECURSIVE BNorm(_)
BNorm(x) == IF x # <<>> /\ x[Len(x)] = 0 THEN BNorm(SubSeq(x, 1, Len(x) - 1)) ELSE x

RECURSIVE BAddC(_, _, _, _)
BAddC(x, y, i, carry) ==
    IF i > Len(x) /\ i > Len(y)
    THEN IF carry = 0 THEN <<>> ELSE <<carry>>
    ELSE LET t == (IF i <= Len(x) THEN x[i] ELSE 0) + (IF i <= Len(y) THEN y[i] ELSE 0) + carry
         IN  <<t % Limb>> \o BAddC(x, y, i + 1, t \div Limb)

\* x + y
BAdd(x, y) == BAddC(x, y, 1, 0)

\* x * 2^n
RECURSIVE BShl(_, _)
BShl(x, n) == IF n = 0 THEN x ELSE BShl(BAdd(x, x), n - 1)

\* quotient and remainder of x by a small d, from the top limb down
RECURSIVE BDivC(_, _, _, _)
BDivC(x, d, i, r) ==
    IF i = 0 THEN [q |-> <<>>, r |-> r]
    ELSE LET t    == r * Limb + x[i]
             rest == BDivC(x, d, i - 1, t % d)
         IN  [q |-> Append(rest.q, t \div d), r |-> rest.r]

BDivMod(x, d) ==
    LET qr == BDivC(x, d, Len(x), 0)
    IN  [q |-> BNorm(qr.q), r |-> qr.r]

BIsOdd(x) == x # <<>> /\ x[1] % 2 = 1

\* x >= 2^53
BGe53(x) == Len(x) > 2 \/ (Len(x) = 2 /\ x[2] >= 67108864)

Float(m, e) == [kind |-> "num", m |-> m, e |-> e]

Zero == Float(<<>>, 0)

NaN == [kind |-> "nan", m |-> <<>>, e |-> 0]

Inf == [kind |-> "inf", m |-> <<>>, e |-> 0]

\* a float64 above the largest finite one is +Inf
Pack(m, e) == IF e > 971 THEN Inf ELSE Float(m, e)

\* the float64 nearest to x * 2^e (x >= 2^52) plus the fraction told by
\* guard (the half bit) and sticky (anything below it); ties go to even
RECURSIVE RoundNearestEven(_, _, _, _)
RoundNearestEven(x, e, guard, sticky) ==
    IF BGe53(x)
    THEN LET h == BDivMod(x, 2)
         IN  RoundNearestEven(h.q, e + 1, h.r = 1, sticky \/ guard)
    ELSE LET y == IF guard /\ (sticky \/ BIsOdd(x)) THEN BAdd(x, <<1>>) ELSE x
         IN  IF BGe53(y) THEN Pack(BDivMod(y, 2).q, e + 1) ELSE Pack(y, e)

Parsed(f) == [err |-> FALSE, f |-> f]

\* the texts the model uses; any other text is a syntax error, "1e999" is
\* a range error
ParseFloat(s) ==
    CASE s = "1.0"      -> Parsed(Float(<<0, 33554432>>, -52))
      [] s = "1.2"      -> Parsed(Float(<<53687091, 40265318>>, -52))
      [] s = "0.8"      -> Parsed(Float(<<26843546, 53687091>>, -53))
      [] s = "1.1"      -> Parsed(Float(<<26843546, 36909875>>, -52))
      [] s = "0.9"      -> Parsed(Float(<<80530637, 60397977>>, -53))
      [] s = "1.05"     -> Parsed(Float(<<80530637, 35232153>>, -52))
      [] s = "0.95"     -> Parsed(Float(<<107374182, 63753420>>, -53))
      [] s = "1.10"     -> Parsed(Float(<<26843546, 36909875>>, -52))
      [] s = "+1.5"     -> Parsed(Float(<<0, 50331648>>, -52))
      [] s = "0x1p-2"   -> Parsed(Float(<<0, 33554432>>, -54))
      [] s = "0"      -> Parsed(Zero)
      [] s = "NaN"    -> Parsed(NaN)
      [] s = "Inf"    -> Parsed(Inf)
      [] s = "1e999"  -> [err |-> TRUE, f |-> Inf]
      [] OTHER        -> [err |-> TRUE, f |-> Zero]

\* float64 a + b
FAdd(a, b) ==
    IF a.kind = "nan" \/ b.kind = "nan" THEN NaN
    ELSE IF a.kind = "inf" \/ b.kind = "inf" THEN Inf
    ELSE IF a.m = <<>> THEN b
    ELSE IF b.m = <<>> THEN a
    ELSE LET e == Min(a.e, b.e)
         IN  RoundNearestEven(BAdd(BShl(a.m, a.e - e), BShl(b.m, b.e - e)), e, FALSE, FALSE)

\* the shift that makes the quotient by d at least 2^53
ShiftFor(d) == CHOOSE k \in 1..5 : 2^(k - 1) >= d /\ (k = 1 \/ 2^(k - 2) < d)

\* float64 a / d for a whole number d in 1..15
FDiv(a, d) ==
    IF a.kind # "num" \/ a.m = <<>> THEN a
    ELSE LET k  == ShiftFor(d)
             qr == BDivMod(BShl(a.m, k), d)
         IN  RoundNearestEven(qr.q, a.e - k, FALSE, qr.r # 0)

-----------------------------------------------------------------------------
(* Assembly: scrapeMatchesWithWorkers after the collector loop.  A scraped  *)
(* table is [Data |-> rows, URL |-> locator]; a row is a sequence of cell   *)
(* texts.  Go indexes player[0..7]; an index past the row's length panics.  *)

\* the rows with at least one cell, in order (validMatches)
ValidRows(data) == SelectSeq(data, LAMBDA player : Len(player) # 0)

\* PlayerStats{...} built from one row; requires 8 cells
PlayerStatsOf(player) ==
    [Name                |-> player[1],
     LeetifyRating       |-> player[2],
     PersonalPerformance |-> player[3],
     HLTVRating          |-> player[4],
     KD                  |-> player[5],
     ADR                 |-> player[6],
     Aim                 |-> player[7],
     Utility             |-> player[8]]

\* the composite literal reads player[7]: a shorter row is an index panic
RowPanics(player) == Len(player) < 8

\* an iteration that is content with nine rows and builds the Match from them
AssembleOneLoose(match) ==
    LET validMatches == ValidRows(match.Data) IN
    IF Len(validMatches) < minValidPlayers - 1
    THEN [kind |-> "skip"]
    ELSE LET first == SubSeq(validMatches, 1, Min(10, Len(validMatches))) IN
         IF \E i \in DOMAIN first : RowPanics(first[i])
         THEN [kind |-> "panic"]
         ELSE [kind  |-> "match",
               match |-> [Teams |-> << [Players |-> [i \in 1..5 |-> PlayerStatsOf(first[i])],
                                        Won |-> TRUE],
                                      [Players |-> [i \in 1..(Len(first) - 5) |->
                                                       PlayerStatsOf(first[i + 5])],
                                        Won |-> FALSE] >>,
                          MatchURL |-> match.URL]]

\* an iteration that puts rows 5-9 in Teams[0] and rows 0-4 in Teams[1]
AssembleOneLosersFirst(match) ==
    LET validMatches == ValidRows(match.Data) IN
    IF Len(validMatches) < minValidPlayers
    THEN [kind |-> "skip"]
    ELSE LET first == SubSeq(validMatches, 1, 10) IN
         IF \E i \in 1..10 : RowPanics(first[i])
         THEN [kind |-> "panic"]
         ELSE [kind  |-> "match",
               match |-> [Teams |-> << [Players |-> [i \in 1..5 |-> PlayerStatsOf(first[i + 5])],
                                        Won |-> FALSE],
                                      [Players |-> [i \in 1..5 |-> PlayerStatsOf(first[i])],
                                        Won |-> TRUE] >>,
                          MatchURL |-> match.URL]]

\* one iteration of the loop over allMatches:
\* "skip" (continue), "panic" (index out of range) or "match" with the Match
AssembleOne(match) ==
    LET validMatches == ValidRows(match.Data) IN
    IF Len(validMatches) < minValidPlayers
    THEN [kind |-> "skip"]
    ELSE LET first == SubSeq(validMatches, 1, 10) IN
         IF \E i \in 1..10 : RowPanics(first[i])
         THEN [kind |-> "panic"]
         ELSE [kind  |-> "match",
               match |-> [Teams |-> << [Players |-> [i \in 1..5 |-> PlayerStatsOf(first[i])],
                                        Won |-> TRUE],
                                      [Players |-> [i \in 1..5 |-> PlayerStatsOf(first[i + 5])],
                                        Won |-> FALSE] >>,
                          MatchURL |-> match.URL]]

\* the whole loop: the Matches appended before a panic are lost with the process
RECURSIVE AssembleAll(_, _)
AssembleAll(all, acc) ==
    IF all = <<>> THEN [panic |-> FALSE, matches |-> acc]
    ELSE LET r == AssembleOne(Head(all)) IN
         CASE r.kind = "skip"  -> AssembleAll(Tail(all), acc)
           [] r.kind = "panic" -> [panic |-> TRUE, matches |-> <<>>]
           [] OTHER            -> AssembleAll(Tail(all), Append(acc, r.match))

-----------------------------------------------------------------------------
(* Aggregation: getAverageMatchStats *)

\* getAverageMatchStats with the ADR cell parsedin the place of K/D
AggFieldsWithADR ==
    <<"LeetifyRating", "PersonalPerformance", "HLTVRating", "ADR", "Aim", "Utility">>

AggFields == <<"LeetifyRating", "PersonalPerformance", "HLTVRating", "KD", "Aim", "Utility">>

Zero6 == [k \in 1..6 |-> Zero]

\* the body of one "for _, player := range Players" iteration: the six fields
\* are parsed in order and the first failure breaks out with skipMatch set
RECURSIVE AddPlayer(_, _, _)
AddPlayer(player, sums, k) ==
    IF k > 6 THEN [skip |-> FALSE, sums |-> sums]
    ELSE LET r == ParseFloat(player[AggFields[k]]) IN
         IF r.err THEN [skip |-> TRUE, sums |-> sums]
         ELSE AddPlayer(player, [sums EXCEPT ![k] = FAdd(sums[k], r.f)], k + 1)

\* the loop over one team's players
RECURSIVE SumTeam(_, _, _)
SumTeam(teamPlayers, sums, i) ==
    IF i > Len(teamPlayers) THEN [skip |-> FALSE, sums |-> sums]
    ELSE LET r == AddPlayer(teamPlayers[i], sums, 1) IN
         IF r.skip THEN r ELSE SumTeam(teamPlayers, r.sums, i + 1)

\* a second loop whose skipMatch is not looked at afterwards
SumLosersIgnoringSkip(match) ==
    [skip |-> FALSE, sums |-> SumTeam(match.Teams[2].Players, Zero6, 1).sums]

\* a second loop that ranges over match.Teams[0].Players again
SumLosersFromWinners(match) == SumTeam(match.Teams[1].Players, Zero6, 1)

\* the second loop, over match.Teams[1].Players
SumLosers(match) == SumTeam(match.Teams[2].Players, Zero6, 1)

\* one iteration of the loop over matches: "skip" or the appended record
AverageOne(match) ==
    LET w == SumTeam(match.Teams[1].Players, Zero6, 1) IN
    IF w.skip THEN [kind |-> "skip", logged |-> FALSE]
    ELSE LET l == SumLosers(match) IN
         IF l.skip THEN [kind |-> "skip", logged |-> TRUE]
         ELSE [kind |-> "stats", logged |-> FALSE,
               stats |-> [MatchURL |-> match.MatchURL,
                          Win  |-> [k \in 1..6 |-> FDiv(w.sums[k], teamSize)],
                          Loss |-> [k \in 1..6 |-> FDiv(l.sums[k], teamSize)]]]

\* a loop that puts each record in front of the ones before it
RECURSIVE getAverageMatchStatsNewestFirst(_)
getAverageMatchStatsNewestFirst(ms) ==
    IF ms = <<>> THEN <<>>
    ELSE LET r == AverageOne(Head(ms)) IN
         IF r.kind = "skip" THEN getAverageMatchStatsNewestFirst(Tail(ms))
         ELSE getAverageMatchStatsNewestFirst(Tail(ms)) \o <<r.stats>>

RECURSIVE getAverageMatchStats(_)
getAverageMatchStats(ms) ==
    IF ms = <<>> THEN <<>>
    ELSE LET r == AverageOne(Head(ms)) IN
         IF r.kind = "skip" THEN getAverageMatchStats(Tail(ms))
         ELSE <<r.stats>> \o getAverageMatchStats(Tail(ms))

-----------------------------------------------------------------------------
(* Deduplication: the "seen" loop of scrapeMatchLinksWithWorkers *)

\* a loop that compares a link with the one before it only
RECURSIVE UniqueLinksAdjacent(_, _, _)
UniqueLinksAdjacent(links, seen, acc) ==
    IF links = <<>> THEN acc
    ELSE IF Head(links) \in seen
         THEN UniqueLinksAdjacent(Tail(links), seen, acc)
         ELSE UniqueLinksAdjacent(Tail(links), {Head(links)}, Append(acc, Head(links)))

\* a loop that puts each new link in front of those it has
RECURSIVE UniqueLinksNewestFirst(_, _, _)
UniqueLinksNewestFirst(links, seen, acc) ==
    IF links = <<>> THEN acc
    ELSE IF Head(links) \in seen
         THEN UniqueLinksNewestFirst(Tail(links), seen, acc)
         ELSE UniqueLinksNewestFirst(Tail(links), seen \cup {Head(links)},
                                     <<Head(links)>> \o acc)

\* for _, link := range matchLinks { if !seen[link] { seen[link] = true;
\* uniqueMatchLinks = append(uniqueMatchLinks, link) } }
RECURSIVE UniqueLinks(_, _, _)
UniqueLinks(links, seen, acc) ==
    IF links = <<>> THEN acc
    ELSE IF Head(links) \in seen
         THEN UniqueLinks(Tail(links), seen, acc)
         ELSE UniqueLinks(Tail(links), seen \cup {Head(links)}, Append(acc, Head(links)))

-----------------------------------------------------------------------------
(* Worker pools.  pool names the stage whose workers are alive:             *)
(*   "details"  worker           (getPlayerDetailsWithWorkers, no WaitGroup) *)
(*   "links"    matchLinkWorker  (scrapeMatchLinksWithWorkers)               *)
(*   "matches"  matchesWorker    (scrapeMatchesWithWorkers)                  *)

\* the slice the stage ranges over to fill its jobs channel
JobsOf(p) ==
    CASE p = "details" -> playerIDs
      [] p = "links"   -> leetifyURLs
      [] p = "matches" -> uniqueMatchLinks
      [] OTHER         -> <<>>

\* make(chan string, len(...)): capacity of the jobs channel of each stage
JobCap(p) == Len(JobsOf(p))

\* a results channel with room for half of the jobs' results
ResultCapHalf(p) == Len(JobsOf(p)) \div 2

\* make(chan ..., n): capacity of the results channel of each stage
ResultCap(p) == IF p = "matches" THEN Len(JobsOf(p)) * 10 ELSE Len(JobsOf(p))

\* the context each stage's workers are handed by FetchAndScrape
PoolCtx(p) == IF p = "details" THEN "ctx" ELSE "scrapeCtx"

CtxIsDone(c) == IF c = "ctx" THEN ctxDone ELSE scrapeCtxDone

Failed == [err |-> TRUE]

\* an unrecovered panic has ended the process: a send on a closed channel,
\* or an index out of range in the assembly loop
Panicked == pc \in {"panic_send", "panic_index"}

\* what the external call of a worker of pool p returns for job:
\* the context's error once the context it runs under is done, else the page
CallOutcome(p, job) ==
    IF CtxIsDone(PoolCtx(p)) THEN Failed
    ELSE CASE p = "details" -> oracle.details[job]
           [] p = "links"   -> oracle.profile[job]
           [] OTHER         -> oracle.match[job]

\* a worker without the tie check
IsTieNever(o) == FALSE

\* matchesWorker drops a page whose phrase is the tie indicator
IsTie(o) == o.phrase = tieIndicator

\* does the worker send a result for this outcome, and which one
Sends(p, o) == ~o.err /\ (p = "matches" => ~IsTie(o))

ResultOf(p, job, o) ==
    CASE p = "details" -> o.player
      [] p = "links"   -> o.links
      [] OTHER         -> [Data |-> o.data, URL |-> job]

\* make both channels and start the numWorkers goroutines of stage p
StartPool(p) ==
    /\ pool' = p
    /\ enq' = 0
    /\ jobs' = <<>>
    /\ jobsClosed' = FALSE
    /\ results' = <<>>
    /\ resultsClosed' = FALSE
    /\ idle' = numWorkers
    /\ busy' = EmptyBag
    /\ exited' = 0
    /\ wg' = IF p = "details" THEN 0 ELSE numWorkers
    /\ closer' = "none"

PoolVars == <<pool, enq, jobs, jobsClosed, results, resultsClosed, idle, busy, exited,
              wg, closer>>

DataVars == <<playerIDs, playerDetails, upserted, leetifyURLs, players, matchLinks,
              uniqueMatchLinks, allMatches, matches, avgMatchStats, inserted>>

Running == pc \notin {"returned", "job_returned", "panic_send", "panic_index"}

Params == <<startPos, faceitLimit>>

\* a getTopPlayersURL that puts the limit it is given in the request
RequestedLimitUncapped(limit) == limit

\* getTopPlayersURL: the limit put in the request
RequestedLimit(limit) == IF limit > maxLimit THEN maxLimit ELSE limit

\* the identity source answers with the ranking's positions offset+1 .. offset+limit
TopPlayers(ranking, offset, limit) ==
    SubSeq(ranking, offset + 1, Min(Len(ranking), offset + RequestedLimit(limit)))

\* for x := range jobs: a waiting worker receives a job, the scraping workers
\* make a tab context with chromedp.NewContext, and the call begins
WorkerDequeue ==
    /\ pool # "none"
    /\ ~Panicked
    /\ idle > 0
    /\ jobs # <<>>
    /\ busy' = busy (+) SetToBag({Head(jobs)})
    /\ idle' = idle - 1
    /\ jobs' = Tail(jobs)
    /\ attempts' = Append(attempts, <<pool, Head(jobs)>>)
    /\ openTabs' = IF pool = "details" THEN openTabs ELSE openTabs + 1
    /\ UNCHANGED <<Params, playersTable, pc, err, ctxDone, scrapeCtxDone, oracle, DataVars, pool, enq,
                   jobsClosed, results, resultsClosed, exited, wg, closer>>

\* a worker that returns without wg.Done()
WorkerExitNoDone ==
    /\ pool # "none"
    /\ ~Panicked
    /\ idle > 0
    /\ jobs = <<>>
    /\ jobsClosed
    /\ idle' = idle - 1
    /\ exited' = exited + 1
    /\ UNCHANGED <<Params, playersTable, openTabs, pc, err, ctxDone, scrapeCtxDone, oracle, DataVars, pool, enq, jobs,
                   jobsClosed, results, resultsClosed, busy, closer, attempts, wg>>

\* for x := range jobs: the channel is closed and drained, a waiting worker
\* returns (defer wg.Done() in the two scraping stages)
WorkerExit ==
    /\ pool # "none"
    /\ ~Panicked
    /\ idle > 0
    /\ jobs = <<>>
    /\ jobsClosed
    /\ idle' = idle - 1
    /\ exited' = exited + 1
    /\ wg' = IF pool = "details" THEN wg ELSE wg - 1
    /\ UNCHANGED <<Params, playersTable, openTabs, pc, err, ctxDone, scrapeCtxDone, oracle, DataVars, pool, enq, jobs,
                   jobsClosed, results, resultsClosed, busy, closer, attempts>>

\* a worker that tries the failed job again instead of dropping it
AfterFailureRetry(job) ==
    /\ attempts' = Append(attempts, <<pool, job>>)
    /\ UNCHANGED <<pc, results, busy, idle>>

\* a matchesWorker that sends an empty table for a page that failed
AfterFailureSendsEmpty(job) ==
    /\ results' = IF pool = "matches" THEN Append(results, [Data |-> <<>>, URL |-> job])
                  ELSE results
    /\ busy' = busy (-) SetToBag({job})
    /\ idle' = idle + 1
    /\ UNCHANGED <<pc, attempts>>

\* if err != nil { log.Println(...); continue }: the job is dropped and the
\* worker is back at  range jobs
AfterFailure(job) ==
    /\ busy' = busy (-) SetToBag({job})
    /\ idle' = idle + 1
    /\ UNCHANGED <<pc, results, attempts>>

\* a worker that puts off its cancel() with defer: nothing is released
\* while the loop runs
TabsAfterDeferredCancel(n) == n

\* cancel() right after chromedp.Run, before the error is looked at
TabsAfterCancel(n) == n - 1

\* the external call for job returns and the two scraping workers cancel
\* their tab context: on an error (or a tie) the worker goes
\* on to the next job, otherwise it sends one result first; a send on a closed
\* channel panics
WorkerFinish(job) ==
    /\ pool # "none"
    /\ ~Panicked
    /\ BagIn(job, busy)
    /\ LET o == CallOutcome(pool, job) IN
        IF ~Sends(pool, o)
        THEN AfterFailure(job)
        ELSE IF resultsClosed
        THEN /\ pc' = "panic_send"
             /\ UNCHANGED <<busy, idle, results, attempts>>
        ELSE /\ Len(results) < ResultCap(pool)
             /\ results' = Append(results, ResultOf(pool, job, o))
             /\ busy' = busy (-) SetToBag({job})
             /\ idle' = idle + 1
             /\ UNCHANGED <<pc, attempts>>
    /\ openTabs' = IF pool = "details" THEN openTabs ELSE TabsAfterCancel(openTabs)
    /\ UNCHANGED <<Params, playersTable, err, ctxDone, scrapeCtxDone, oracle, DataVars, pool, enq, jobs,
                   jobsClosed, resultsClosed, exited, wg, closer>>

\* jobs <- x, one element of the stage's input per step
Enqueue ==
    /\ pc \in {"details_send", "links_send", "matches_send"}
    /\ enq < Len(JobsOf(pool))
    /\ Len(jobs) < JobCap(pool)
    /\ jobs' = Append(jobs, JobsOf(pool)[enq + 1])
    /\ enq' = enq + 1
    /\ UNCHANGED <<Params, playersTable, openTabs, pc, err, ctxDone, scrapeCtxDone, oracle, DataVars, pool, jobsClosed,
                   results, resultsClosed, idle, busy, exited, wg, closer, attempts>>

\* close(jobs); the scraping stages then start  go func() { wg.Wait(); close(results) }()
CloseJobs ==
    /\ pc \in {"details_send", "links_send", "matches_send"}
    /\ enq = Len(JobsOf(pool))
    /\ jobsClosed' = TRUE
    /\ closer' = IF pool = "details" THEN "none" ELSE "waiting"
    /\ pc' = CASE pc = "details_send" -> "details_collect"
               [] pc = "links_send"   -> "links_collect"
               [] OTHER               -> "matches_collect"
    /\ UNCHANGED <<Params, playersTable, openTabs, err, ctxDone, scrapeCtxDone, oracle, DataVars, pool, enq, jobs,
                   results, resultsClosed, idle, busy, exited, wg, attempts>>

\* a Wait that returns while workers are still running
WaitReturnsAtOnce == TRUE

\* wg.Wait() blocks until the counter is zero
WaitReturns == wg = 0

\* go func() { wg.Wait(); close(results) }()
CloserClose ==
    /\ closer = "waiting"
    /\ ~Panicked
    /\ WaitReturns
    /\ resultsClosed' = TRUE
    /\ closer' = "done"
    /\ UNCHANGED <<Params, playersTable, openTabs, pc, err, ctxDone, scrapeCtxDone, oracle, DataVars, pool, enq, jobs,
                   jobsClosed, results, idle, busy, exited, wg, attempts>>

-----------------------------------------------------------------------------
(* FetchAndScrape: the goroutine that runs one pipeline run *)

\* return from FetchAndScrape with error e; defer cancel() ends ctx
Return(e) ==
    /\ pc' = "returned"
    /\ err' = e
    /\ ctxDone' = TRUE

\* the 5 minute timer of context.WithTimeout fires
Deadline ==
    /\ Running
    /\ ~ctxDone
    /\ ctxDone' = TRUE
    /\ UNCHANGED <<Params, playersTable, openTabs, pc, err, scrapeCtxDone, oracle, DataVars, PoolVars, attempts>>

\* a FetchAndScrape that goes on with no ids when the leaderboard fetch fails
GetTopPlayersGoesOn ==
    /\ pc = "getTopPlayers"
    /\ playerIDs' = IF ctxDone \/ oracle.top.err THEN <<>>
                    ELSE TopPlayers(oracle.top.ranking, startPos, faceitLimit)
    /\ StartPool("details")
    /\ pc' = "details_send"
    /\ UNCHANGED <<err, ctxDone, playerDetails, upserted, leetifyURLs, players,
                   matchLinks, uniqueMatchLinks, allMatches, matches,
                   avgMatchStats, inserted>>
    /\ UNCHANGED <<Params, playersTable, openTabs, scrapeCtxDone, oracle, attempts>>

\* s.getTopPlayers(ctx, ...), the ids are copied and
\* getPlayerDetailsWithWorkers makes its channels and starts its workers
GetTopPlayers ==
    /\ pc = "getTopPlayers"
    /\ IF ctxDone \/ oracle.top.err
        THEN /\ Return("failed to get top EU players")
             /\ UNCHANGED <<DataVars, PoolVars>>
        ELSE /\ playerIDs' = TopPlayers(oracle.top.ranking, startPos, faceitLimit)
             /\ StartPool("details")
             /\ pc' = "details_send"
             /\ UNCHANGED <<err, ctxDone, playerDetails, upserted, leetifyURLs, players,
                            matchLinks, uniqueMatchLinks, allMatches, matches,
                            avgMatchStats, inserted>>
    /\ UNCHANGED <<Params, playersTable, openTabs, scrapeCtxDone, oracle, attempts>>

\* select { case player := <-results: players = append(players, player) }
DetailsRecv ==
    /\ pc = "details_collect"
    /\ Len(players) < Len(playerIDs)
    /\ results # <<>>
    /\ players' = Append(players, Head(results))
    /\ results' = Tail(results)
    /\ UNCHANGED <<Params, playersTable, openTabs, pc, err, ctxDone, scrapeCtxDone, oracle, playerIDs, playerDetails,
                   upserted, leetifyURLs, matchLinks, uniqueMatchLinks, allMatches,
                   matches, avgMatchStats, inserted, pool, enq, jobs, jobsClosed,
                   resultsClosed, idle, busy, exited, wg, closer, attempts>>

\* select { case <-ctx.Done(): return nil, ctx.Err() }, which FetchAndScrape wraps
DetailsCtxDone ==
    /\ pc = "details_collect"
    /\ Len(players) < Len(playerIDs)
    /\ ctxDone
    /\ Return("failed to get player details")
    /\ UNCHANGED <<Params, playersTable, openTabs, scrapeCtxDone, oracle, DataVars, PoolVars, attempts>>

\* a collector that returns whatever it has collected so far
DetailsReturnPartial ==
    /\ pc = "details_collect"
    /\ Len(players) <= Len(playerIDs)
    /\ playerDetails' = players
    /\ pc' = "upsert"
    /\ UNCHANGED <<Params, playersTable, openTabs, err, ctxDone, scrapeCtxDone, oracle, playerIDs, upserted, leetifyURLs,
                   players, matchLinks, uniqueMatchLinks, allMatches, matches,
                   avgMatchStats, inserted, PoolVars, attempts>>

\* the loop has run len(playerIDs) times: return players, nil
DetailsReturn ==
    /\ pc = "details_collect"
    /\ Len(players) = Len(playerIDs)
    /\ playerDetails' = players
    /\ pc' = "upsert"
    /\ UNCHANGED <<Params, playersTable, openTabs, err, ctxDone, scrapeCtxDone, oracle, playerIDs, upserted, leetifyURLs,
                   players, matchLinks, uniqueMatchLinks, allMatches, matches,
                   avgMatchStats, inserted, PoolVars, attempts>>

\* CreatePlayerParams of one player: the key and the columns written
\* (country, faceit_url and avatar are written the way name is)
PlayerRow(player) == [steam_id |-> player.SteamID64, name |-> player.Nickname]

\* an INSERT without the ON CONFLICT clause on a table without the key
CreatePlayerAppends(table, row) == Append(table, row)

\* INSERT INTO players ... ON CONFLICT(steam_id) DO UPDATE SET name = excluded.name, ...
CreatePlayer(table, row) ==
    IF \E i \in DOMAIN table : table[i].steam_id = row.steam_id
    THEN [i \in DOMAIN table |-> IF table[i].steam_id = row.steam_id THEN row ELSE table[i]]
    ELSE Append(table, row)

\* a CreatePlayer loop inside one transaction: a failure undoes the rows the
\* loop has stored
UpsertPlayerInTx ==
    /\ pc = "upsert"
    /\ Len(upserted) < Len(playerDetails)
    /\ \E dbOk \in BOOLEAN :
        IF dbOk /\ ~ctxDone
        THEN /\ upserted' = Append(upserted, playerDetails[Len(upserted) + 1].SteamID64)
             /\ playersTable' = CreatePlayer(playersTable,
                                             PlayerRow(playerDetails[Len(upserted) + 1]))
             /\ UNCHANGED <<pc, err, ctxDone>>
        ELSE /\ Return("create player")
             /\ playersTable' = SelectSeq(playersTable,
                                          LAMBDA row : row.steam_id \notin Range(upserted))
             /\ UNCHANGED upserted
    /\ UNCHANGED <<Params, openTabs, scrapeCtxDone, oracle, playerIDs, playerDetails, leetifyURLs, players,
                   matchLinks, uniqueMatchLinks, allMatches, matches, avgMatchStats,
                   inserted, PoolVars, attempts>>

\* one iteration of the CreatePlayer loop; the statement fails when ctx is
\* done and may fail in the database
UpsertPlayer ==
    /\ pc = "upsert"
    /\ Len(upserted) < Len(playerDetails)
    /\ \E dbOk \in BOOLEAN :
        IF dbOk /\ ~ctxDone
        THEN /\ upserted' = Append(upserted, playerDetails[Len(upserted) + 1].SteamID64)
             /\ playersTable' = CreatePlayer(playersTable,
                                             PlayerRow(playerDetails[Len(upserted) + 1]))
             /\ UNCHANGED <<pc, err, ctxDone>>
        ELSE /\ Return("create player")
             /\ UNCHANGED <<upserted, playersTable>>
    /\ UNCHANGED <<Params, openTabs, scrapeCtxDone, oracle, playerIDs, playerDetails, leetifyURLs, players,
                   matchLinks, uniqueMatchLinks, allMatches, matches, avgMatchStats,
                   inserted, PoolVars, attempts>>

\* leetifyURLs is built and scrapeMatchLinksWithWorkers makes its channels
\* and starts its workers
StartLinks ==
    /\ pc = "upsert"
    /\ Len(upserted) = Len(playerDetails)
    /\ leetifyURLs' = [i \in 1..Len(playerDetails) |->
                          leetifyUserURL \o playerDetails[i].SteamID64]
    /\ StartPool("links")
    /\ pc' = "links_send"
    /\ UNCHANGED <<Params, playersTable, openTabs, err, ctxDone, scrapeCtxDone, oracle, playerIDs, playerDetails,
                   upserted, players, matchLinks, uniqueMatchLinks, allMatches, matches,
                   avgMatchStats, inserted, attempts>>

\* a collector that keeps the last received list only
LinksRecvOverwrite ==
    /\ pc = "links_collect"
    /\ results # <<>>
    /\ matchLinks' = Head(results)
    /\ results' = Tail(results)
    /\ UNCHANGED <<Params, playersTable, openTabs, pc, err, ctxDone, scrapeCtxDone, oracle, playerIDs, playerDetails,
                   upserted, leetifyURLs, players, uniqueMatchLinks, allMatches, matches,
                   avgMatchStats, inserted, pool, enq, jobs, jobsClosed, resultsClosed,
                   idle, busy, exited, wg, closer, attempts>>

\* for link := range results { matchLinks = append(matchLinks, link...) }
LinksRecv ==
    /\ pc = "links_collect"
    /\ results # <<>>
    /\ matchLinks' = matchLinks \o Head(results)
    /\ results' = Tail(results)
    /\ UNCHANGED <<Params, playersTable, openTabs, pc, err, ctxDone, scrapeCtxDone, oracle, playerIDs, playerDetails,
                   upserted, leetifyURLs, players, uniqueMatchLinks, allMatches, matches,
                   avgMatchStats, inserted, pool, enq, jobs, jobsClosed, resultsClosed,
                   idle, busy, exited, wg, closer, attempts>>

\* a range loop that ends as soon as the channel is empty
RangeEndsWhenEmpty == results = <<>>

\* the range loop ends on the closed, drained channel
RangeEnds == results = <<>> /\ resultsClosed

\* a return of the links as collected, repeats included
LinksReturnAsCollected ==
    /\ pc = "links_collect"
    /\ RangeEnds
    /\ uniqueMatchLinks' = matchLinks
    /\ StartPool("matches")
    /\ pc' = "matches_send"
    /\ UNCHANGED <<Params, playersTable, openTabs, err, ctxDone, scrapeCtxDone, oracle, playerIDs, playerDetails,
                   upserted, leetifyURLs, players, matchLinks, allMatches, matches,
                   avgMatchStats, inserted, attempts>>

\* the links are deduplicated and returned, and scrapeMatchesWithWorkers
\* makes its channels and starts its workers
LinksReturn ==
    /\ pc = "links_collect"
    /\ RangeEnds
    /\ uniqueMatchLinks' = UniqueLinks(matchLinks, {}, <<>>)
    /\ StartPool("matches")
    /\ pc' = "matches_send"
    /\ UNCHANGED <<Params, playersTable, openTabs, err, ctxDone, scrapeCtxDone, oracle, playerIDs, playerDetails,
                   upserted, leetifyURLs, players, matchLinks, allMatches, matches,
                   avgMatchStats, inserted, attempts>>

\* a collector that keeps the table received last only
MatchesRecvKeepsLast ==
    /\ pc = "matches_collect"
    /\ results # <<>>
    /\ allMatches' = <<Head(results)>>
    /\ results' = Tail(results)
    /\ UNCHANGED <<Params, playersTable, openTabs, pc, err, ctxDone, scrapeCtxDone, oracle, playerIDs, playerDetails,
                   upserted, leetifyURLs, players, matchLinks, uniqueMatchLinks, matches,
                   avgMatchStats, inserted, pool, enq, jobs, jobsClosed, resultsClosed,
                   idle, busy, exited, wg, closer, attempts>>

\* for result := range results { allMatches = append(allMatches, result) }
MatchesRecv ==
    /\ pc = "matches_collect"
    /\ results # <<>>
    /\ allMatches' = Append(allMatches, Head(results))
    /\ results' = Tail(results)
    /\ UNCHANGED <<Params, playersTable, openTabs, pc, err, ctxDone, scrapeCtxDone, oracle, playerIDs, playerDetails,
                   upserted, leetifyURLs, players, matchLinks, uniqueMatchLinks, matches,
                   avgMatchStats, inserted, pool, enq, jobs, jobsClosed, resultsClosed,
                   idle, busy, exited, wg, closer, attempts>>

\* a collector that reports an error when it has collected nothing
MatchesCollectedFailsOnEmpty ==
    /\ pc = "matches_collect"
    /\ RangeEnds
    /\ IF allMatches = <<>>
       THEN Return("no matches")
       ELSE pc' = "assemble" /\ UNCHANGED <<err, ctxDone>>
    /\ UNCHANGED <<Params, playersTable, openTabs, scrapeCtxDone, oracle, DataVars, PoolVars, attempts>>

MatchesCollected ==
    /\ pc = "matches_collect"
    /\ RangeEnds
    /\ pc' = "assemble"
    /\ UNCHANGED <<Params, playersTable, openTabs, err, ctxDone, scrapeCtxDone, oracle, DataVars, PoolVars, attempts>>

\* the assembly loop of scrapeMatchesWithWorkers; an index panic is not
\* recovered anywhere and ends the process
Assemble ==
    /\ pc = "assemble"
    /\ LET r == AssembleAll(allMatches, <<>>) IN
        IF r.panic
        THEN /\ pc' = "panic_index"
             /\ UNCHANGED matches
        ELSE /\ matches' = r.matches
             /\ pc' = "aggregate"
    /\ UNCHANGED <<Params, playersTable, openTabs, err, ctxDone, scrapeCtxDone, oracle, playerIDs, playerDetails,
                   upserted, leetifyURLs, players, matchLinks, uniqueMatchLinks,
                   allMatches, avgMatchStats, inserted, PoolVars, attempts>>

Aggregate ==
    /\ pc = "aggregate"
    /\ avgMatchStats' = getAverageMatchStats(matches)
    /\ pc' = "insert"
    /\ UNCHANGED <<Params, playersTable, openTabs, err, ctxDone, scrapeCtxDone, oracle, playerIDs, playerDetails,
                   upserted, leetifyURLs, players, matchLinks, uniqueMatchLinks,
                   allMatches, matches, inserted, PoolVars, attempts>>

(* BatchInsertMatches.  The table matches is a sequence of records, at most  *)
(* one for a match_url.  A fault says where the database fails: nowhere,     *)
(* at BeginTx, at the k-th CreateMatch, or at Commit.                        *)

Faults(n) ==
    {[at |-> "none", k |-> 0], [at |-> "begin", k |-> 0], [at |-> "commit", k |-> 0]}
    \cup {[at |-> "record", k |-> k] : k \in 1..n}

\* INSERT ... ON CONFLICT(match_url) DO UPDATE SET ...
CreateMatch(view, match) ==
    IF \E i \in DOMAIN view : view[i].MatchURL = match.MatchURL
    THEN [i \in DOMAIN view |-> IF view[i].MatchURL = match.MatchURL THEN match ELSE view[i]]
    ELSE Append(view, match)

\* a transaction that keeps what it wrote when rolled back
RollbackKeeps(db, view) == view

\* tx.Rollback(): the table is what it was at BeginTx
Rollback(db, view) == db

\* for _, match := range matches { qtx.CreateMatch } and tx.Commit();
\* view is the table as the transaction sees it
RECURSIVE TxLoop(_, _, _, _, _)
TxLoop(db, view, batch, i, fault) ==
    IF i > Len(batch)
    THEN IF fault.at = "commit"
         THEN [db |-> db, err |-> TRUE]
         ELSE [db |-> view, err |-> FALSE]
    ELSE IF fault.at = "record" /\ fault.k = i
         THEN [db |-> Rollback(db, view), err |-> TRUE]
         ELSE TxLoop(db, CreateMatch(view, batch[i]), batch, i + 1, fault)

BatchInsertMatches(db, batch, fault) ==
    IF fault.at = "begin"
    THEN [db |-> db, err |-> TRUE]
    ELSE TxLoop(db, db, batch, 1, fault)

\* BatchInsertMatches(context.Background(), s.dbConn, matchesToInsert) and
\* the return of FetchAndScrape
BatchInsert ==
    /\ pc = "insert"
    /\ \E fault \in Faults(Len(avgMatchStats)) :
        LET r == BatchInsertMatches(inserted, avgMatchStats, fault) IN
        /\ inserted' = r.db
        /\ Return(IF r.err THEN "failed to batch insert" ELSE "nil")
    /\ UNCHANGED <<Params, playersTable, openTabs, scrapeCtxDone, oracle, playerIDs, playerDetails, upserted, leetifyURLs,
                   players, matchLinks, uniqueMatchLinks, allMatches, matches,
                   avgMatchStats, PoolVars, attempts>>

-----------------------------------------------------------------------------
(* Scraped tables the model draws its inputs from *)

NumTexts == <<"1.0", "1.2", "0.8", "1.1", "0.9", "1.05", "0.95", "1.10">>

\* the i-th well-formed player row: a name and seven numeric cells
Row(i) == <<"p" \o ToString(i)>> \o [k \in 1..7 |-> NumTexts[((i + k) % 8) + 1]]

\* rows 1..n, with an empty row at the positions of empties
RECURSIVE Rows(_, _, _, _)
Rows(len, empties, pos, next) ==
    IF pos > len THEN <<>>
    ELSE IF pos \in empties
         THEN <<(<<>>)>> \o Rows(len, empties, pos + 1, next)
         ELSE <<Row(next)>> \o Rows(len, empties, pos + 1, next + 1)

\* row j cut or padded to c cells
SetRowLen(data, j, c) ==
    [data EXCEPT ![j] = SubSeq(@ \o <<"x", "y", "z", "u", "v", "w", "s", "t", "r">>, 1, c)]

SetCell(data, j, k, text) == [data EXCEPT ![j][k] = text]

GoodData == Rows(10, {}, 1, 1)

-----------------------------------------------------------------------------
(* The external world of a run: the leaderboard, the identity source and    *)
(* the pages, as a function of the locator.                                  *)

\* players on the leaderboard, in ranking order
UniverseSize == 8

PlayerId(i) == "id" \o ToString(i)

SteamId(i) == "s" \o ToString(i)

ProfileURL(i) == leetifyUserURL \o SteamId(i)

MatchURLs == {"m1", "m2", "m3", "m4", "m5", "m6", "m7", "m8", "m9"}

Ranking == [i \in 1..UniverseSize |-> PlayerId(i)]

\* getPlayerDetails: player 5 cannot be fetched
WorldDetails ==
    [id \in {PlayerId(i) : i \in 1..UniverseSize} |->
        LET i == CHOOSE n \in 1..UniverseSize : PlayerId(n) = id IN
        IF i = 5 THEN Failed
        ELSE [err |-> FALSE,
              player |-> [PlayerID |-> id, SteamID64 |-> SteamId(i),
                          Nickname |-> "nick" \o ToString(i)]]]

Links(l) == [err |-> FALSE, links |-> l]

\* discoverMatchLinks (at most 5 links a profile): the profile of player 6
\* does not load, several players took part in the same matches
WorldProfile ==
    [u \in {ProfileURL(i) : i \in 1..UniverseSize} |->
        LET i == CHOOSE n \in 1..UniverseSize : ProfileURL(n) = u IN
        CASE i = 1 -> Links(<<"m1">>)
          [] i = 2 -> Links(<<"m2">>)
          [] i = 3 -> Links(<<"m1", "m3", "m1">>)
          [] i = 4 -> Links(<<"m9">>)
          [] i = 6 -> Failed
          [] i = 7 -> Links(<<"m7">>)
          [] i = 8 -> Links(<<"m4", "m3", "m5", "m8", "m6">>)
          [] OTHER -> Links(<<>>)]

Page(phrase, data) == [err |-> FALSE, phrase |-> phrase, data |-> data]

\* extractMatchRows: m1 and m2 are well formed; m3 is a tie; m4 and m8 do not
\* load; m5 has 9 players' rows; m6 has a non-numeric K/D; m7 has a row of
\* 7 cells; m9 has 11 players' rows and an empty one
WorldMatch ==
    [m \in MatchURLs |->
        CASE m = "m1" -> Page("WIN", GoodData)
          [] m = "m2" -> Page("LOSS", Rows(10, {}, 1, 3))
          [] m = "m9" -> Page("WIN", Rows(12, {7}, 1, 1))
          [] m = "m3" -> Page(tieIndicator, GoodData)
          [] m \in {"m4", "m8"} -> Failed
          [] m = "m5" -> Page("WIN", Rows(10, {4}, 1, 1))
          [] m = "m6" -> Page("WIN", SetCell(GoodData, 7, 5, "-"))
          [] OTHER    -> Page("WIN", SetRowLen(GoodData, 3, 7))]

\* the leaderboard answers or not; the match pages are those of WorldMatch,
\* or none of them loads
Worlds ==
    {[top |-> [err |-> e, ranking |-> Ranking], details |-> WorldDetails,
      profile |-> WorldProfile, match |-> pages] :
        e \in BOOLEAN, pages \in {WorldMatch, [m \in MatchURLs |-> Failed]}}

-----------------------------------------------------------------------------
(* One run of FetchAndScrape *)

NoPool ==
    /\ pool = "none"
    /\ enq = 0
    /\ jobs = <<>>
    /\ jobsClosed = FALSE
    /\ results = <<>>
    /\ resultsClosed = FALSE
    /\ idle = 0
    /\ busy = EmptyBag
    /\ exited = 0
    /\ wg = 0
    /\ closer = "none"

NoData ==
    /\ playerIDs = <<>>
    /\ playerDetails = <<>>
    /\ upserted = <<>>
    /\ leetifyURLs = <<>>
    /\ players = <<>>
    /\ matchLinks = <<>>
    /\ uniqueMatchLinks = <<>>
    /\ allMatches = <<>>
    /\ matches = <<>>
    /\ avgMatchStats = <<>>
    /\ inserted = <<>>

Init ==
    /\ startPos \in 0..(UniverseSize - 1)
    /\ faceitLimit \in 0..MaxPlayers
    /\ pc = "getTopPlayers"
    /\ err = "none"
    /\ ctxDone = FALSE
    /\ scrapeCtxDone = FALSE
    /\ oracle \in Worlds
    /\ NoData
    /\ playersTable = <<>>
    /\ openTabs = 0
    /\ NoPool
    /\ attempts = <<>>

Next ==
    \/ Deadline
    \/ GetTopPlayers
    \/ Enqueue
    \/ CloseJobs
    \/ WorkerDequeue
    \/ \E job \in BagToSet(busy) : WorkerFinish(job)
    \/ WorkerExit
    \/ CloserClose
    \/ DetailsRecv
    \/ DetailsCtxDone
    \/ DetailsReturn
    \/ UpsertPlayer
    \/ StartLinks
    \/ LinksRecv
    \/ LinksReturn
    \/ MatchesRecv
    \/ MatchesCollected
    \/ Assemble
    \/ Aggregate
    \/ BatchInsert

Spec == Init /\ [][Next]_vars

-----------------------------------------------------------------------------
(* Parts of a run on their own, from every input of a bounded set *)

SeqsUpTo(S, n) == UNION {[1..k -> S] : k \in 0..n}

TheWorld == CHOOSE w \in Worlds : ~w.top.err /\ w.match = WorldMatch

\* a run in which the identity stage has left nothing
NothingFetched ==
    /\ startPos = 0
    /\ faceitLimit = 0
    /\ err = "none"
    /\ ctxDone = FALSE
    /\ scrapeCtxDone = FALSE
    /\ attempts = <<>>
    /\ playerIDs = <<>>
    /\ playerDetails = <<>>
    /\ upserted = <<>>
    /\ playersTable = <<>>
    /\ openTabs = 0
    /\ leetifyURLs = <<>>
    /\ players = <<>>

FreshRun ==
    /\ NothingFetched
    /\ avgMatchStats = <<>>
    /\ inserted = <<>>

\* the pool of a scraping stage after its workers have all returned and the
\* results channel has been closed
PoolFinished(p) ==
    /\ pool = p
    /\ enq = 0
    /\ jobs = <<>>
    /\ jobsClosed = TRUE
    /\ resultsClosed = TRUE
    /\ idle = 0
    /\ busy = EmptyBag
    /\ exited = numWorkers
    /\ wg = 0
    /\ closer = "done"

(* scrapeMatchLinksWithWorkers from the collector loop on *)

DedupURLs == {"m1", "m2", "m3"}

InitDedup ==
    /\ FreshRun
    /\ pc = "links_collect"
    /\ oracle = TheWorld
    /\ PoolFinished("links")
    /\ results \in SeqsUpTo(SeqsUpTo(DedupURLs, MaxLinks), MaxLists)
    /\ matchLinks = <<>>
    /\ uniqueMatchLinks = <<>>
    /\ allMatches = <<>>
    /\ matches = <<>>

NextDedup == LinksRecv \/ LinksReturn

SpecDedup == InitDedup /\ [][NextDedup]_vars

(* the assembly loop of scrapeMatchesWithWorkers *)

Table(url, data) == [Data |-> data, URL |-> url]

\* a table of len rows of which those at the positions empties are empty,
\* with row j cut to 7 cells or padded to 9 when c is 7 or 9
TableOf(url, len, empties, j, c) ==
    LET data == Rows(len, empties, 1, 1)
    IN  Table(url, IF c = 8 \/ j > len THEN data ELSE SetRowLen(data, j, c))

\* the tables have up to MaxRows rows of which up to MaxEmpty are empty
InitAssemble ==
    /\ FreshRun
    /\ pc = "assemble"
    /\ oracle = TheWorld
    /\ PoolFinished("matches")
    /\ results = <<>>
    /\ matchLinks = <<>>
    /\ uniqueMatchLinks = <<>>
    /\ \E len \in 0..MaxRows :
       \E empties \in {e \in SUBSET (1..len) : Cardinality(e) <= MaxEmpty} :
       \E j \in {1, 5, 6, 10, 11}, c \in {7, 8, 9} :
          /\ c # 8 => len >= 9
          /\ c = 8 => j = 1
          /\ LET t == TableOf("m1", len, empties, j, c)
             IN  allMatches \in {<<t>>, <<Table("m2", GoodData), t>>,
                                 <<t, Table("m3", GoodData)>>}
    /\ matches = <<>>

NextAssemble == Assemble

SpecAssemble == InitAssemble /\ [][NextAssemble]_vars

(* getAverageMatchStats *)

CellTexts == {"bad", "", "NaN", "1e999", "+1.5"}

MatchOf(url, data) == AssembleOne(Table(url, data)).match

\* a Match of ten numeric rows (j = 0), or one that differs from it in
\* cell k of row j
SweptMatch(url, j, k, text) ==
    MatchOf(url, IF j = 0 THEN GoodData ELSE SetCell(GoodData, j, k, text))

CoreMatch(n) ==
    CASE n = 1 -> MatchOf("m2", Rows(10, {}, 1, 3))
      [] n = 2 -> MatchOf("m3", SetCell(GoodData, 2, 3, "n/a"))
      [] n = 3 -> MatchOf("m4", SetCell(GoodData, 9, 8, "n/a"))
      [] OTHER -> MatchOf("m5", Rows(10, {}, 1, 2))

\* the Matches around the swept one: all of them numeric, or in turn one
\* with a bad loser field, a numeric one, one with a bad winner field
Background(kind, i) == IF kind = 1 THEN CoreMatch(1) ELSE CoreMatch((i % 3) + 2)

\* batches of at most MaxBatch Matches, one of them any swept Match, and the
\* four Matches of CoreMatch one after the other, beginning with any of them
InitAggregate ==
    /\ FreshRun
    /\ pc = "aggregate"
    /\ oracle = TheWorld
    /\ PoolFinished("matches")
    /\ results = <<>>
    /\ matchLinks = <<>>
    /\ uniqueMatchLinks = <<>>
    /\ allMatches = <<>>
    /\ \/ matches = <<>>
       \/ \E n \in 1..MaxBatch : \E at \in 1..n : \E kind \in 1..2 :
          \E j \in 0..10, k \in 1..8, text \in CellTexts :
             /\ j = 0 => (k = 1 /\ text = "bad")
             /\ matches = [i \in 1..n |-> IF i = at THEN SweptMatch("m1", j, k, text)
                                          ELSE Background(kind, i)]
       \/ \E r \in 0..3 : matches = [i \in 1..4 |-> CoreMatch(((i + r) % 4) + 1)]

NextAggregate == Aggregate

SpecAggregate == InitAggregate /\ [][NextAggregate]_vars

(* scrapeMatchesWithWorkers followed by getAverageMatchStats *)

JobURL(i) == "m" \o ToString(i)

ExtractOutcomes ==
    {Failed,
     Page(tieIndicator, GoodData),
     Page(tieIndicator, Rows(3, {2}, 1, 1)),
     Page("Tie", GoodData),
     Page("WIN", GoodData)}

InitExtract ==
    /\ FreshRun
    /\ pc = "matches_send"
    /\ \E n \in 0..MaxJobs :
        /\ uniqueMatchLinks = [i \in 1..n |-> JobURL(i)]
        /\ \E f \in [{JobURL(i) : i \in 1..n} -> ExtractOutcomes] :
              oracle = [TheWorld EXCEPT !.match =
                           [m \in {JobURL(i) : i \in 1..n} |-> f[m]]]
    /\ pool = "matches"
    /\ enq = 0
    /\ jobs = <<>>
    /\ jobsClosed = FALSE
    /\ results = <<>>
    /\ resultsClosed = FALSE
    /\ idle = numWorkers
    /\ busy = EmptyBag
    /\ exited = 0
    /\ wg = numWorkers
    /\ closer = "none"
    /\ matchLinks = <<>>
    /\ allMatches = <<>>
    /\ matches = <<>>

NextExtract ==
    \/ Enqueue
    \/ CloseJobs
    \/ WorkerDequeue
    \/ \E job \in BagToSet(busy) : WorkerFinish(job)
    \/ WorkerExit
    \/ CloserClose
    \/ MatchesRecv
    \/ MatchesCollected
    \/ Assemble
    \/ Aggregate

SpecExtract == InitExtract /\ [][NextExtract]_vars

-----------------------------------------------------------------------------
(* Properties *)

\* the jobs of stage p that a worker has dequeued, in dequeue order
AttemptsOf(p) ==
    LET sel == SelectSeq(attempts, LAMBDA a : a[1] = p)
    IN  [i \in 1..Len(sel) |-> sel[i][2]]

\* the discovery collector's loop has ended / the extraction collector's has
LinkStageOver == pool = "matches"

MatchStageOver == pool = "matches" /\ pc \notin {"matches_send", "matches_collect", "panic_send"}

\* the links of every profile that loaded, in job order
SentLinks ==
    Concat([i \in 1..Len(leetifyURLs) |->
               LET o == oracle.profile[leetifyURLs[i]]
               IN  IF o.err THEN <<>> ELSE o.links])

\* the table of every match page that loaded and is no tie, in job order
SentTables ==
    LET ok == SelectSeq(uniqueMatchLinks,
                        LAMBDA m : ~oracle.match[m].err /\ oracle.match[m].phrase # "TIE")
    IN  [i \in 1..Len(ok) |-> [Data |-> oracle.match[ok[i]].data, URL |-> ok[i]]]

\* C1: in both scraping stages the results channel is closed only once all
\* numWorkers workers have returned; no worker ever sends on a closed channel;
\* and when the collector's range loop has ended it has received every
\* result a worker sent: the collected links (tables) are exactly those of
\* the jobs whose call succeeded
C1_ResultsClosedAfterWorkers ==
    /\ resultsClosed => (exited = numWorkers /\ idle = 0 /\ busy = EmptyBag)
    /\ pc # "panic_send"
    /\ LinkStageOver => SameBag(matchLinks, SentLinks)
    /\ MatchStageOver => SameBag(allMatches, SentTables)

\* both collectors have ended on the closed channel with several results
C1_Witness ==
    /\ pc = "assemble"
    /\ resultsClosed
    /\ Len(matchLinks) >= 3
    /\ Len(allMatches) >= 2

\* C2: in both scraping stages no job is dequeued more often than it was
\* enqueued, at the end of the stage the dequeued jobs are exactly the
\* enqueued ones (none skipped, none retried, a failure stops nothing), and
\* there are never more results than attempts whose call succeeded: a failed
\* attempt contributes none
C2_EachJobAttemptedOnce ==
    /\ \A p \in {"links", "matches"} :
          LET a  == AttemptsOf(p)
              js == JobsOf(p)
          IN  /\ \A x \in Range(a) : Count(a, x) <= Count(js, x)
              /\ (IF p = "links" THEN LinkStageOver ELSE MatchStageOver) => SameBag(a, js)
    /\ pool = "links" =>
          Len(results) <= Cardinality({i \in DOMAIN AttemptsOf("links") :
                                          ~oracle.profile[AttemptsOf("links")[i]].err})
    /\ pool = "matches" =>
          /\ Len(results) + Len(allMatches)
                <= Cardinality({i \in DOMAIN AttemptsOf("matches") :
                                   ~oracle.match[AttemptsOf("matches")[i]].err})
          /\ \A i \in DOMAIN results : ~oracle.match[results[i].URL].err
          /\ \A i \in DOMAIN allMatches : ~oracle.match[allMatches[i].URL].err

\* an extraction stage with more jobs than workers has ended; a job that
\* failed was dequeued before one that succeeded
C2_Witness ==
    /\ MatchStageOver
    /\ Len(uniqueMatchLinks) > numWorkers
    /\ Len(allMatches) >= 1
    /\ LET a == AttemptsOf("matches")
       IN  \E i, j \in DOMAIN a :
              /\ i < j
              /\ oracle.match[a[i]].err
              /\ \E k \in DOMAIN allMatches : allMatches[k].URL = a[j]

\* C3: the list scrapeMatchLinksWithWorkers returns has no locator twice
\* and has the same set of locators as the links the collector received
C3_DedupNoRepeatSameSet ==
    pool = "matches" =>
        /\ NoDup(uniqueMatchLinks)
        /\ Range(uniqueMatchLinks) = Range(matchLinks)

\* four links were received, the first and third the same
C3_Witness ==
    /\ pool = "matches"
    /\ Len(matchLinks) = 4
    /\ matchLinks[1] = matchLinks[3]
    /\ matchLinks[1] # matchLinks[2]
    /\ Len(uniqueMatchLinks) = 2

\* the rows of a scraped table that have at least one cell
NonEmptyRows(t) == Cardinality({i \in DOMAIN t.Data : Len(t.Data[i]) > 0})

\* C4: a scraped table with fewer than 10 rows of at least one cell never
\* produces a Match, and the Matches returned are no more than the tables
\* with 10 such rows or more
C4_FewerThanTenRowsNoMatch ==
    /\ \A i \in DOMAIN allMatches :
          NonEmptyRows(allMatches[i]) < 10 =>
              \A k \in DOMAIN matches : matches[k].MatchURL # allMatches[i].URL
    /\ Len(matches) <= Cardinality({i \in DOMAIN allMatches : NonEmptyRows(allMatches[i]) >= 10})

\* a table of 11 rows of which 2 are empty was skipped next to one that was not
C4_Witness ==
    /\ pc = "aggregate"
    /\ Len(matches) = 1
    /\ \E i \in DOMAIN allMatches :
          /\ Len(allMatches[i].Data) = 11
          /\ NonEmptyRows(allMatches[i]) = 9

\* the Match the claim C5 describes for table t
ExpectedMatch(t) ==
    LET rows == SelectSeq(t.Data, LAMBDA r : r # <<>>)
        P(r) == [Name |-> r[1], LeetifyRating |-> r[2], PersonalPerformance |-> r[3],
                 HLTVRating |-> r[4], KD |-> r[5], ADR |-> r[6], Aim |-> r[7],
                 Utility |-> r[8]]
    IN  [Teams |-> << [Players |-> [i \in 1..5 |-> P(rows[i])], Won |-> TRUE],
                      [Players |-> [i \in 1..5 |-> P(rows[i + 5])], Won |-> FALSE] >>,
         MatchURL |-> t.URL]

\* C5: once the assembly loop is over, every scraped table with 10 or more
\* non-empty rows has produced exactly one Match, and that Match is built
\* from its first 10 non-empty rows: rows 0-4 the winners, rows 5-9 the
\* losers, cells 0..7 in the order name, rating, personal performance,
\* reference rating, K/D, ADR, aim, utility
C5_TenRowsOneMatch ==
    pc \in {"aggregate", "panic_index"} =>
        \A i \in DOMAIN allMatches :
            NonEmptyRows(allMatches[i]) >= 10 =>
                /\ Cardinality({k \in DOMAIN matches :
                                   matches[k].MatchURL = allMatches[i].URL}) = 1
                /\ \E k \in DOMAIN matches : matches[k] = ExpectedMatch(allMatches[i])

AggregatedFields(player) ==
    <<player.LeetifyRating, player.PersonalPerformance, player.HLTVRating,
      player.KD, player.Aim, player.Utility>>

\* all 6 aggregated fields of all 10 players of Match m parse
AllParse(m) ==
    \A t \in 1..2 : \A i \in 1..5 : \A k \in 1..6 :
        ~ParseFloat(AggregatedFields(m.Teams[t].Players[i])[k]).err

\* the average of field k over the 5 players of team t of Match m
TeamAverage(m, t, k) ==
    LET f(i) == ParseFloat(AggregatedFields(m.Teams[t].Players[i])[k]).f
    IN  FDiv(FAdd(FAdd(FAdd(FAdd(FAdd(Zero, f(1)), f(2)), f(3)), f(4)), f(5)), 5)

\* C6: getAverageMatchStats emits a record for a Match iff all 6 aggregated
\* fields of all 10 players parse: its output is, in order, one record for
\* each such Match of the batch, carrying the averages over all 5 players of
\* each team, and nothing for any other Match
C6_AllOrNothing ==
    pc = "insert" =>
        LET good == SelectSeq(matches, AllParse)
        IN  /\ Len(avgMatchStats) = Len(good)
            /\ \A i \in DOMAIN good :
                  avgMatchStats[i] =
                      [MatchURL |-> good[i].MatchURL,
                       Win  |-> [k \in 1..6 |-> TeamAverage(good[i], 1, k)],
                       Loss |-> [k \in 1..6 |-> TeamAverage(good[i], 2, k)]]

\* the last field of the last loser of the first Match does not parse, all
\* its other fields do, and the second Match of the batch got its record
C6_Witness ==
    /\ pc = "insert"
    /\ Len(matches) = 2
    /\ ParseFloat(matches[1].Teams[2].Players[5].Utility).err
    /\ AllParse([matches[1] EXCEPT !.Teams[2].Players[5].Utility = "1.0"])
    /\ AllParse(matches[2])
    /\ Len(avgMatchStats) = 1
    /\ avgMatchStats[1].MatchURL = matches[2].MatchURL

\* the match pages whose result phrase is the tie indicator
TiePages == {m \in DOMAIN oracle.match :
                ~oracle.match[m].err /\ oracle.match[m].phrase = "TIE"}

\* C7: a match page whose result phrase is "TIE" never has a result on the
\* extraction results channel or with the collector, never a Match and
\* never a MatchAverageStats record, whatever its table holds
C7_TieNeverProducesResult ==
    pool = "matches" =>
        \A m \in TiePages :
            /\ \A i \in DOMAIN results : results[i].URL # m
            /\ \A i \in DOMAIN allMatches : allMatches[i].URL # m
            /\ \A i \in DOMAIN matches : matches[i].MatchURL # m
            /\ \A i \in DOMAIN avgMatchStats : avgMatchStats[i].MatchURL # m
            /\ \A i \in DOMAIN inserted : inserted[i].MatchURL # m

\* a tie page with ten rows was a job, next to a page that got its record
C7_Witness ==
    /\ pc = "insert"
    /\ \E i \in DOMAIN uniqueMatchLinks :
          /\ uniqueMatchLinks[i] \in TiePages
          /\ NonEmptyRows([Data |-> oracle.match[uniqueMatchLinks[i]].data]) = 10
    /\ Len(avgMatchStats) = 1

\* a non-tie page with 10 rows of 8 cells whose 7 statistics are decimal numbers
WellFormedPage(m) ==
    LET o == oracle.match[m]
    IN  /\ ~o.err
        /\ o.phrase # "TIE"
        /\ Len(o.data) = 10
        /\ \A r \in 1..10 :
              /\ Len(o.data[r]) = 8
              /\ \A k \in 2..8 : LET x == ParseFloat(o.data[r][k])
                                 IN  ~x.err /\ x.f.kind = "num"

\* 2 profile locators, each yielding 1 match locator, the two distinct and
\* both pages well-formed
TwoProfilesTwoMatches ==
    /\ Len(leetifyURLs) = 2
    /\ \A i \in 1..2 : /\ ~oracle.profile[leetifyURLs[i]].err
                       /\ Len(oracle.profile[leetifyURLs[i]].links) = 1
    /\ oracle.profile[leetifyURLs[1]].links # oracle.profile[leetifyURLs[2]].links
    /\ \A i \in 1..2 : WellFormedPage(oracle.profile[leetifyURLs[i]].links[1])

\* getAverageMatchStats has returned in this run
AggregationDone ==
    \/ pc = "insert"
    \/ pc = "returned" /\ err \in {"nil", "failed to batch insert"}

\* C8: when 2 profile locators each yield 1 distinct match locator and both
\* pages are non-tie with 10 well-formed numeric rows, aggregation yields
\* exactly 2 records, one with each of the two locators
C8_EndToEndTwoRecords ==
    (TwoProfilesTwoMatches /\ AggregationDone) =>
        /\ Len(avgMatchStats) = 2
        /\ {avgMatchStats[i].MatchURL : i \in 1..2}
              = {oracle.profile[leetifyURLs[i]].links[1] : i \in 1..2}

\* such a run has returned with both records stored
C8_Witness ==
    /\ TwoProfilesTwoMatches
    /\ pc = "returned"
    /\ err = "nil"
    /\ Len(inserted) = 2

\* C9: in getPlayerDetailsWithWorkers a failed fetch is a soft drop: once
\* every job has been attempted and every result sent was received, before
\* the deadline, the function can return what it has with a nil error
C9_FetchErrorIsSoftDrop ==
    (/\ pc = "details_collect"
     /\ ~ctxDone
     /\ jobs = <<>>
     /\ busy = EmptyBag
     /\ results = <<>>)
        => ENABLED DetailsReturn

\* C10: the deadline-bounded context of the run is the cancellation signal
\* of the discovery and extraction workers: once it is done no call of
\* those stages completes with a result
C10_DeadlineCancelsScraping ==
    [][(ctxDone /\ pool \in {"links", "matches"} /\ pool' = pool)
          => Len(results') <= Len(results)]_vars

\* C11: once the run's cancellation signal has fired no worker starts a
\* further job: no job is dequeued, in any stage, after the deadline context
\* is done
C11_NoDequeueAfterCancel ==
    [][ctxDone => attempts' = attempts]_vars

\* C12: the stages are strictly sequenced.  The extraction pool is started,
\* and an extraction job dequeued, only when every discovery worker has
\* returned, the discovery results channel is closed and drained and the
\* deduplicated list holds every discovered locator; aggregation starts only
\* when the extraction results channel is closed and drained and every
\* received table has been through assembly; the batch write happens only
\* after aggregation has returned its records
C12_StagesStrictlySequenced ==
    [][/\ (pool = "links" /\ pool' = "matches") =>
              /\ exited = numWorkers /\ idle = 0 /\ busy = EmptyBag
              /\ resultsClosed /\ results = <<>>
              /\ SameBag(AttemptsOf("links"), leetifyURLs)
              /\ NoDup(uniqueMatchLinks')
              /\ Range(uniqueMatchLinks') = Range(SentLinks)
       /\ (pool = "matches" /\ attempts' # attempts) =>
              /\ SameBag(AttemptsOf("links"), leetifyURLs)
              /\ Range(uniqueMatchLinks) = Range(SentLinks)
       /\ (pc = "aggregate" /\ pc' # "aggregate") =>
              /\ pool = "matches"
              /\ exited = numWorkers /\ idle = 0 /\ busy = EmptyBag
              /\ resultsClosed /\ results = <<>>
              /\ SameBag(AttemptsOf("matches"), uniqueMatchLinks)
              /\ SameBag(allMatches, SentTables)
              /\ matches = AssembleAll(allMatches, <<>>).matches
       /\ avgMatchStats' # avgMatchStats => pc = "aggregate"
       /\ inserted' # inserted =>
              /\ pc = "insert"
              /\ avgMatchStats = getAverageMatchStats(matches)
      ]_vars

\* a run in which links were deduplicated went through every stage and
\* stored two records
C12_Witness ==
    /\ pc = "returned"
    /\ err = "nil"
    /\ Len(matchLinks) > Len(uniqueMatchLinks)
    /\ Len(AttemptsOf("matches")) >= 3
    /\ Len(inserted) = 2

-----------------------------------------------------------------------------
(* BatchInsertMatches on its own *)

\* a record whose 12 averages are all the value of text
StatsOf(url, text) ==
    [MatchURL |-> url,
     Win  |-> [k \in 1..6 |-> ParseFloat(text).f],
     Loss |-> [k \in 1..6 |-> ParseFloat(text).f]]

\* a batch of up to MaxStored records for m1, m2, ..., written to an empty
\* table, to one that has an older record for m1, or to one with two others
InitInsert ==
    /\ NothingFetched
    /\ pc = "insert"
    /\ oracle = TheWorld
    /\ PoolFinished("matches")
    /\ results = <<>>
    /\ matchLinks = <<>>
    /\ uniqueMatchLinks = <<>>
    /\ allMatches = <<>>
    /\ matches = <<>>
    /\ \E n \in 0..MaxStored : \E texts \in [1..n -> {"1.0", "0.9"}] :
          avgMatchStats = [i \in 1..n |-> StatsOf(JobURL(i), texts[i])]
    /\ inserted \in {<<>>,
                     <<StatsOf("m1", "1.2")>>,
                     <<StatsOf("m9", "1.2"), StatsOf("m2", "1.2")>>}

NextInsert == BatchInsert

SpecInsert == InitInsert /\ [][NextInsert]_vars

\* the table after holds the batch's records and, of the table before, the
\* records for other matches, one record a match
AllPersisted(after, before, batch) ==
    /\ Range(after) = Range(batch) \cup
                      {r \in Range(before) : \A i \in DOMAIN batch : batch[i].MatchURL # r.MatchURL}
    /\ \A i, j \in DOMAIN after : after[i].MatchURL = after[j].MatchURL => i = j

\* C13: BatchInsertMatches is all-or-nothing: wherever the database fails
\* (BeginTx, the upsert of any one record, Commit) an error is returned and
\* the table is what it was before the call; without a failure no error is
\* returned and every record of the batch is in the table; and the run ends
\* in one of these two ways
C13_BatchInsertAllOrNothing ==
    [][pc = "insert" =>
          /\ \A fault \in Faults(Len(avgMatchStats)) :
                LET r == BatchInsertMatches(inserted, avgMatchStats, fault)
                IN  IF fault.at = "none"
                    THEN ~r.err /\ AllPersisted(r.db, inserted, avgMatchStats)
                    ELSE r.err /\ r.db = inserted
          /\ \/ err' = "nil" /\ AllPersisted(inserted', inserted, avgMatchStats)
             \/ err' = "failed to batch insert" /\ inserted' = inserted
      ]_vars

\* a batch of three records, one of them for m1, has failed and the table
\* still has only its older record for m1
C13_Witness ==
    /\ pc = "returned"
    /\ err = "failed to batch insert"
    /\ Len(avgMatchStats) = 3
    /\ inserted = <<StatsOf("m1", "1.2")>>

\* C14: every Match the assembly loop has produced has exactly two teams of
\* exactly 5 players, the first flagged as the winner and the second as the
\* loser, and carries the URL of a scraped table with 10 non-empty rows
C14_MatchShape ==
    \A k \in DOMAIN matches :
        LET m == matches[k] IN
        /\ Len(m.Teams) = 2
        /\ Len(m.Teams[1].Players) = 5
        /\ Len(m.Teams[2].Players) = 5
        /\ m.Teams[1].Won = TRUE
        /\ m.Teams[2].Won = FALSE
        /\ \E i \in DOMAIN allMatches :
              /\ allMatches[i].URL = m.MatchURL
              /\ NonEmptyRows(allMatches[i]) >= 10

\* two tables, one of them of 12 rows, have each produced a Match
C14_Witness ==
    /\ pc = "aggregate"
    /\ Len(matches) = 2
    /\ matches[1].MatchURL # matches[2].MatchURL
    /\ \E i \in DOMAIN allMatches : Len(allMatches[i].Data) = 12

-----------------------------------------------------------------------------
(* The averages of getAverageMatchStats on their own *)

MeanTexts == <<"1.0", "0.9", "1.2", "0.8", "1.1", "1.05", "0.95">>

\* the text of aggregated field k of player i of team t: the winners' first
\* field is the tuple in player order, their other fields are rotations of
\* it, and the losers have the next text wherever the winners have one
MeanText(tuple, t, i, k) ==
    LET idx == tuple[((i + k - 2) % 5) + 1]
    IN  MeanTexts[IF t = 1 THEN idx ELSE (idx % Len(MeanTexts)) + 1]

MeanPlayer(tuple, t, i) ==
    [Name                |-> "p",
     LeetifyRating       |-> MeanText(tuple, t, i, 1),
     PersonalPerformance |-> MeanText(tuple, t, i, 2),
     HLTVRating          |-> MeanText(tuple, t, i, 3),
     KD                  |-> MeanText(tuple, t, i, 4),
     ADR                 |-> "80",
     Aim                 |-> MeanText(tuple, t, i, 5),
     Utility             |-> MeanText(tuple, t, i, 6)]

MeanMatch(tuple) ==
    [Teams |-> << [Players |-> [i \in 1..5 |-> MeanPlayer(tuple, 1, i)], Won |-> TRUE],
                  [Players |-> [i \in 1..5 |-> MeanPlayer(tuple, 2, i)], Won |-> FALSE] >>,
     MatchURL |-> "m1"]

\* 1.0, 1.2, 0.8, 1.1, 0.9
ExampleTuple == <<1, 3, 4, 5, 2>>

\* one Match whose values are any 5 of the first MaxTexts texts, or the
\* example's
InitMean ==
    /\ FreshRun
    /\ pc = "aggregate"
    /\ oracle = TheWorld
    /\ PoolFinished("matches")
    /\ results = <<>>
    /\ matchLinks = <<>>
    /\ uniqueMatchLinks = <<>>
    /\ allMatches = <<>>
    /\ \E tuple \in [1..5 -> 1..MaxTexts] \cup {ExampleTuple} :
          matches = <<MeanMatch(tuple)>>

NextMean == Aggregate

SpecMean == InitMean /\ [][NextMean]_vars

\* the float64 nearest to the arithmetic mean of field k over the 5 players
\* of team t of Match m, the sum being taken without rounding
ExactMean(m, t, k) ==
    LET f(i) == ParseFloat(AggregatedFields(m.Teams[t].Players[i])[k]).f
        e    == Min(Min(Min(f(1).e, f(2).e), Min(f(3).e, f(4).e)), f(5).e)
        g(i) == BShl(f(i).m, f(i).e - e)
        sum  == BAdd(BAdd(BAdd(g(1), g(2)), BAdd(g(3), g(4))), g(5))
        qr   == BDivMod(BShl(sum, 4), 5)
    IN  RoundNearestEven(qr.q, e - 4, FALSE, qr.r # 0)

\* float64 a and b are at most n units in the last place apart
Near(a, b, n) ==
    LET e == Min(a.e, b.e)
        x == BShl(a.m, a.e - e)
        y == BShl(b.m, b.e - e)
    IN  \E d \in 0..n : BNorm(BAdd(x, <<d>>)) = BNorm(y) \/ BNorm(BAdd(y, <<d>>)) = BNorm(x)

\* C15 as stated: each of the 12 fields of a record is the exact arithmetic
\* mean of its team's 5 values (as a float64: the one nearest to it)
C15_ExactArithmeticMean ==
    pc = "insert" =>
        \A i \in DOMAIN avgMatchStats : \A k \in 1..6 :
            /\ avgMatchStats[i].Win[k]  = ExactMean(matches[i], 1, k)
            /\ avgMatchStats[i].Loss[k] = ExactMean(matches[i], 2, k)

\* C15: each of the 12 fields of a record is its own team's float64 sum,
\* accumulated from 0 in player order with every addition rounded, divided
\* by 5 in float64: the winners' fields from the winners' 5 values only, the
\* losers' from the losers' only.  It is within 2 units in the last place of
\* the arithmetic mean, and for 1.0, 1.2, 0.8, 1.1, 0.9 it is exactly 1.0
C15_Float64MeanOfFive ==
    pc = "insert" =>
        /\ Len(avgMatchStats) = Len(matches)
        /\ \A i \in DOMAIN avgMatchStats : \A k \in 1..6 :
              /\ avgMatchStats[i].Win[k]  = TeamAverage(matches[i], 1, k)
              /\ avgMatchStats[i].Loss[k] = TeamAverage(matches[i], 2, k)
              /\ Near(avgMatchStats[i].Win[k],  ExactMean(matches[i], 1, k), 2)
              /\ Near(avgMatchStats[i].Loss[k], ExactMean(matches[i], 2, k), 2)
        /\ matches = <<MeanMatch(ExampleTuple)>> =>
              avgMatchStats[1].Win[1] = ParseFloat("1.0").f

\* the example's Match has been averaged
C15_Witness ==
    /\ pc = "insert"
    /\ matches = <<MeanMatch(ExampleTuple)>>
    /\ [i \in 1..5 |-> matches[1].Teams[1].Players[i].LeetifyRating]
          = <<"1.0", "1.2", "0.8", "1.1", "0.9">>
    /\ Len(avgMatchStats) = 1

\* the errors FetchAndScrape returns
HardErrors == {"failed to get top EU players", "failed to get player details",
               "create player", "failed to batch insert"}

\* nothing of the scraping stages, the aggregation and the batch write
NoScraping ==
    /\ leetifyURLs = <<>>
    /\ matchLinks = <<>>
    /\ uniqueMatchLinks = <<>>
    /\ allMatches = <<>>
    /\ matches = <<>>
    /\ avgMatchStats = <<>>
    /\ inserted = <<>>
    /\ \A i \in DOMAIN attempts : attempts[i][1] = "details"

\* what the run has done is no more than the steps before the failed one
NoLaterStep ==
    CASE err = "failed to get top EU players" -> NoData /\ NoPool /\ attempts = <<>>
      [] err = "failed to get player details" ->
            pool = "details" /\ playerDetails = <<>> /\ upserted = <<>> /\ NoScraping
      [] err = "create player" ->
            pool = "details" /\ Len(upserted) < Len(playerDetails) /\ NoScraping
      [] err = "failed to batch insert" -> pool = "matches" /\ inserted = <<>>
      [] OTHER -> TRUE

\* C16: a failed leaderboard fetch, an error of the player-details stage, a
\* failed player upsert and a failed batch write each make FetchAndScrape
\* return a non-nil error; when it has returned one, no step after the
\* failed one has run (after an identity-source failure: no scraping and no
\* batch write), and nothing of the run changes after the return
C16_HardErrorAbortsRun ==
    [][ /\ (pc = "getTopPlayers" /\ pc' # pc /\ (oracle.top.err \/ ctxDone)) =>
              (pc' = "returned" /\ err' = "failed to get top EU players")
        /\ (pc = "details_collect" /\ pc' # pc /\ Len(players) < Len(playerIDs)) =>
              (pc' = "returned" /\ err' = "failed to get player details")
        /\ (pc = "upsert" /\ pc' # pc /\ Len(upserted) < Len(playerDetails)) =>
              (pc' = "returned" /\ err' = "create player")
        /\ (pc = "insert" /\ pc' # pc /\ err' # "nil") =>
              (pc' = "returned" /\ err' = "failed to batch insert" /\ inserted' = inserted)
        /\ pc' = "returned" => (err' \in HardErrors \cup {"nil"} /\ NoLaterStep')
        /\ pc = "returned" => UNCHANGED <<pc, err, pool, DataVars>>
      ]_vars

\* the upsert of the second player has failed after the first was written
C16_Witness ==
    /\ pc = "returned"
    /\ err = "create player"
    /\ Len(playerDetails) = 2
    /\ Len(upserted) = 1
    /\ inserted = <<>>

\* the first 10 non-empty rows of table t all have 8 cells or more
WellFormedTable(t) ==
    /\ NonEmptyRows(t) >= 10
    /\ \A i \in 1..10 : ~RowPanics(ValidRows(t.Data)[i])

\* C17: a malformed table never aborts the assembly: the loop always ends
\* normally, having emitted a Match or dropped the table for every table,
\* a table with a row of fewer than 8 cells among its first 10 non-empty
\* rows included, and the well-formed tables around it have their Match
C17_MalformedTableIsSoft ==
    /\ pc # "panic_index"
    /\ pc = "aggregate" =>
          \A i \in DOMAIN allMatches :
              WellFormedTable(allMatches[i]) =>
                  \E k \in DOMAIN matches : matches[k].MatchURL = allMatches[i].URL

\* the match pages of the unique links that loaded, are no tie and have 10
\* non-empty rows or more
UsablePages ==
    {m \in Range(uniqueMatchLinks) :
        /\ ~oracle.match[m].err
        /\ ~IsTie(oracle.match[m])
        /\ NonEmptyRows(Table(m, oracle.match[m].data)) >= 10}

\* C18: a profile or a match page whose load fails is dropped and fails
\* nothing: the discovery stage never makes FetchAndScrape return, and what
\* it returns is, without repeats, exactly the links of the profiles that
\* loaded; the extraction stage returns the tables of exactly the pages that
\* loaded (ties apart), and, unless a loaded page's short row ends the
\* process, one Match for each such page with 10 non-empty rows
C18_FailedPageIsDropped ==
    /\ pool = "links" => (pc \in {"links_send", "links_collect"} /\ err = "none")
    /\ LinkStageOver =>
          /\ NoDup(uniqueMatchLinks)
          /\ Range(uniqueMatchLinks) =
                UNION {Range(oracle.profile[u].links) :
                          u \in {v \in Range(leetifyURLs) : ~oracle.profile[v].err}}
    /\ MatchStageOver =>
          /\ SameBag(allMatches, SentTables)
          /\ pc = "panic_index" =>
                \E m \in UsablePages : \E r \in 1..Len(oracle.match[m].data) :
                    Len(oracle.match[m].data[r]) \in 1..7
          /\ pc \notin {"assemble", "panic_index"} =>
                /\ Len(matches) = Cardinality(UsablePages)
                /\ {matches[k].MatchURL : k \in DOMAIN matches} = UsablePages

\* the profile of player 6 did not load, that of player 7 did, and the
\* discovery stage has returned the one link of player 7
C18_Witness ==
    /\ pool = "matches"
    /\ pc = "matches_send"
    /\ err = "none"
    /\ Len(leetifyURLs) = 2
    /\ oracle.profile[leetifyURLs[1]].err
    /\ ~oracle.profile[leetifyURLs[2]].err
    /\ uniqueMatchLinks = oracle.profile[leetifyURLs[2]].links
    /\ uniqueMatchLinks # <<>>

\* C19: no send on a jobs or results channel blocks.  The jobs channel has
\* room for every job, so the next job can always be put in it; the results
\* channel has room for one result a job; and the results in the channel
\* plus those still to come (jobs running, queued and not yet enqueued)
\* never exceed its capacity, so a worker that is about to send finds room,
\* whether or not the collector is still receiving
C19_NoSendBlocks ==
    /\ JobCap(pool) = Len(JobsOf(pool))
    /\ ResultCap(pool) >= Len(JobsOf(pool))
    /\ (pc \in {"details_send", "links_send", "matches_send"} /\ enq < Len(JobsOf(pool))) =>
          Len(jobs) < JobCap(pool)
    /\ Len(results) + BagCardinality(busy) + Len(jobs) + (Len(JobsOf(pool)) - enq)
          <= ResultCap(pool)
    /\ \A job \in BagToSet(busy) :
          (~Panicked /\ ~resultsClosed /\ Sends(pool, CallOutcome(pool, job))) =>
              Len(results) < ResultCap(pool)

\* both results of the discovery stage are in the channel, which is full,
\* before the collector has begun to receive
C19_Witness ==
    /\ pool = "links"
    /\ pc = "links_send"
    /\ Len(leetifyURLs) = 2
    /\ Len(results) = 2
    /\ Len(results) = ResultCap(pool)

\* the position of the first x in s
FirstOccurrence(s, x) == CHOOSE k \in DOMAIN s : s[k] = x /\ \A l \in 1..(k - 1) : s[l] # x

\* C20: the list returned by scrapeMatchLinksWithWorkers has its links in
\* the order of their first occurrence in matchLinks, the concatenation of
\* the results in the order they were received
C20_FirstSeenOrder ==
    pool = "matches" =>
        /\ \A i \in DOMAIN uniqueMatchLinks :
              \E k \in DOMAIN matchLinks : matchLinks[k] = uniqueMatchLinks[i]
        /\ \A i, j \in DOMAIN uniqueMatchLinks :
              i < j => FirstOccurrence(matchLinks, uniqueMatchLinks[i])
                          < FirstOccurrence(matchLinks, uniqueMatchLinks[j])

\* m2, m1, m2, m3 were received and m2, m1, m3 returned
C20_Witness ==
    /\ pool = "matches"
    /\ matchLinks = <<"m2", "m1", "m2", "m3">>
    /\ uniqueMatchLinks = <<"m2", "m1", "m3">>

-----------------------------------------------------------------------------
(* The two upserts on their own: the CreatePlayer loop and the batch write, *)
(* each on a table that an earlier run may have filled                      *)

Detail(i, nick) == [PlayerID |-> PlayerId(i), SteamID64 |-> SteamId(i), Nickname |-> nick]

\* up to MaxPlayers details of players 1 and 2 under their own or a new
\* name, the same player possibly twice; the table is empty, has an older
\* row of player 1, or older rows of players 3 and 2
InitUpsert ==
    /\ startPos = 0
    /\ \E details \in SeqsUpTo({Detail(i, nick) : i \in 1..2, nick \in {"nick", "renamed"}},
                               MaxPlayers) :
          /\ playerDetails = details
          /\ players = details
          /\ playerIDs = [i \in DOMAIN details |-> details[i].PlayerID]
          /\ faceitLimit = Len(details)
          /\ enq = Len(details)
    /\ playersTable \in {<<>>,
                         <<PlayerRow(Detail(1, "old"))>>,
                         <<PlayerRow(Detail(3, "old")), PlayerRow(Detail(2, "old"))>>}
    /\ pc = "upsert"
    /\ openTabs = 0
    /\ err = "none"
    /\ ctxDone = FALSE
    /\ scrapeCtxDone = FALSE
    /\ oracle = TheWorld
    /\ attempts = [i \in DOMAIN playerIDs |-> <<"details", playerIDs[i]>>]
    /\ upserted = <<>>
    /\ leetifyURLs = <<>>
    /\ matchLinks = <<>>
    /\ uniqueMatchLinks = <<>>
    /\ allMatches = <<>>
    /\ matches = <<>>
    /\ avgMatchStats = <<>>
    /\ inserted = <<>>
    /\ pool = "details"
    /\ jobs = <<>>
    /\ jobsClosed = TRUE
    /\ results = <<>>
    /\ resultsClosed = FALSE
    /\ idle = 0
    /\ busy = EmptyBag
    /\ exited = numWorkers
    /\ wg = 0
    /\ closer = "none"

InitStore == InitUpsert \/ InitInsert

NextStore == UpsertPlayer \/ BatchInsert

SpecStore == InitStore /\ [][NextStore]_vars

\* C21: both upserts are idempotent by key.  A CreatePlayer that succeeds
\* leaves exactly one row for the player's steam_id, with the values just
\* written, and every other row as it was, whether or not the steam_id was
\* stored before; doing it again changes nothing.  A batch whose match_url
\* is already stored is not failed by that: without a database fault it
\* commits, the table has one row a match_url with the batch's values, and
\* writing the batch again changes nothing
C21_UpsertsIdempotentByKey ==
    [][ /\ (pc = "upsert" /\ upserted' # upserted) =>
              LET row    == PlayerRow(playerDetails[Len(upserted) + 1])
                  stored == \E i \in DOMAIN playersTable : playersTable[i].steam_id = row.steam_id
              IN  /\ Cardinality({i \in DOMAIN playersTable' :
                                     playersTable'[i].steam_id = row.steam_id}) = 1
                  /\ \E i \in DOMAIN playersTable' : playersTable'[i] = row
                  /\ Len(playersTable') = Len(playersTable) + (IF stored THEN 0 ELSE 1)
                  /\ \A i \in DOMAIN playersTable :
                        playersTable[i].steam_id # row.steam_id =>
                            playersTable'[i] = playersTable[i]
                  /\ CreatePlayer(playersTable', row) = playersTable'
        /\ pc = "insert" =>
              LET r == BatchInsertMatches(inserted, avgMatchStats, [at |-> "none", k |-> 0])
              IN  /\ ~r.err
                  /\ AllPersisted(r.db, inserted, avgMatchStats)
                  /\ BatchInsertMatches(r.db, avgMatchStats, [at |-> "none", k |-> 0]).db = r.db
                  /\ err' = "nil" => inserted' = r.db
      ]_vars

\* the same player was upserted twice under two names into a table that had
\* an older row of theirs: the table has their one row, with the second name
C21_Witness ==
    /\ pc = "upsert"
    /\ Len(upserted) = 2
    /\ playerDetails[1].SteamID64 = playerDetails[2].SteamID64
    /\ playerDetails[1].Nickname # playerDetails[2].Nickname
    /\ playersTable = <<PlayerRow(playerDetails[2])>>

-----------------------------------------------------------------------------
(* The two scraping stages on their own, from the end of the CreatePlayer   *)
(* loop to the end of the extraction collector's loop, with goroutines that *)
(* are scheduled as long as they can take a step and external calls that    *)
(* all return                                                               *)

\* the details of K players in a row, starting with player 1, 3 or 6, have
\* been fetched and stored
InitScrape ==
    /\ \E first \in {1, 3, 6}, K \in 0..MaxJobs :
          /\ 5 \notin first..(first + K - 1)
          /\ startPos = first - 1
          /\ faceitLimit = K
          /\ playerIDs = [i \in 1..K |-> PlayerId(first + i - 1)]
          /\ playerDetails = [i \in 1..K |-> WorldDetails[PlayerId(first + i - 1)].player]
          /\ enq = K
    /\ players = playerDetails
    /\ upserted = [i \in DOMAIN playerDetails |-> playerDetails[i].SteamID64]
    /\ playersTable = [i \in DOMAIN playerDetails |-> PlayerRow(playerDetails[i])]
    /\ pc = "upsert"
    /\ openTabs = 0
    /\ err = "none"
    /\ ctxDone = FALSE
    /\ scrapeCtxDone = FALSE
    /\ oracle = TheWorld
    /\ attempts = [i \in DOMAIN playerIDs |-> <<"details", playerIDs[i]>>]
    /\ leetifyURLs = <<>>
    /\ matchLinks = <<>>
    /\ uniqueMatchLinks = <<>>
    /\ allMatches = <<>>
    /\ matches = <<>>
    /\ avgMatchStats = <<>>
    /\ inserted = <<>>
    /\ pool = "details"
    /\ jobs = <<>>
    /\ jobsClosed = TRUE
    /\ results = <<>>
    /\ resultsClosed = FALSE
    /\ idle = 0
    /\ busy = EmptyBag
    /\ exited = numWorkers
    /\ wg = 0
    /\ closer = "none"

NextScrape ==
    \/ StartLinks
    \/ Enqueue
    \/ CloseJobs
    \/ WorkerDequeue
    \/ \E job \in BagToSet(busy) : WorkerFinish(job)
    \/ WorkerExit
    \/ CloserClose
    \/ LinksRecv
    \/ LinksReturn
    \/ MatchesRecv
    \/ MatchesCollected

SpecFair ==
    /\ InitScrape
    /\ [][NextScrape]_vars
    /\ WF_vars(StartLinks)
    /\ WF_vars(Enqueue)
    /\ WF_vars(CloseJobs)
    /\ WF_vars(WorkerDequeue)
    /\ WF_vars(\E job \in BagToSet(busy) : WorkerFinish(job))
    /\ WF_vars(WorkerExit)
    /\ WF_vars(CloserClose)
    /\ WF_vars(LinksRecv)
    /\ WF_vars(LinksReturn)
    /\ WF_vars(MatchesRecv)
    /\ WF_vars(MatchesCollected)

\* all workers of the stage have returned and its results channel is closed
WorkersGone == exited = numWorkers /\ idle = 0 /\ busy = EmptyBag /\ resultsClosed

C23_AtMostFiveCallsOneTabEach ==
    ~Panicked =>
        /\ BagCardinality(busy) <= numWorkers
        /\ idle + BagCardinality(busy) + exited = (IF pool = "none" THEN 0 ELSE numWorkers)
        /\ openTabs = (IF pool \in {"links", "matches"} THEN BagCardinality(busy) ELSE 0)

\* 6 match pages: all 5 workers are in a call with a tab context each while
\* the sixth job waits
C23_Witness ==
    /\ pool = "matches"
    /\ Len(uniqueMatchLinks) = 6
    /\ BagCardinality(busy) = 5
    /\ openTabs = 5
    /\ jobs # <<>>

\* C24: every Match of the batch that getAverageMatchStats has abandoned
\* because a field did not parse has its skip log entry
C24_EverySkipIsLogged ==
    pc = "insert" =>
        \A i \in DOMAIN matches :
            AverageOne(matches[i]).kind = "skip" => AverageOne(matches[i]).logged

\* C25: every average of every record getAverageMatchStats has emitted is a
\* finite number
C25_EveryAverageIsFinite ==
    pc = "insert" =>
        \A i \in DOMAIN avgMatchStats : \A k \in 1..6 :
            /\ avgMatchStats[i].Win[k].kind = "num"
            /\ avgMatchStats[i].Loss[k].kind = "num"

\* C26: getPlayerDetailsWithWorkers returns in one of two ways only: with a
\* nil error and the details of all len(playerIDs) players, every fetch
\* having succeeded; or, the context being done, with the context's error
\* and no list, whatever had been collected.  So with a fetch that fails it
\* does not return before the context is done
C26_AllDetailsOrContextError ==
    [][(pc = "details_collect" /\ pc' # pc) =>
          \/ /\ pc' = "upsert"
             /\ err' = "none"
             /\ Len(playerDetails') = Len(playerIDs)
             /\ SameBag(playerDetails',
                        [i \in DOMAIN playerIDs |-> oracle.details[playerIDs[i]].player])
             /\ \A i \in DOMAIN playerIDs : ~oracle.details[playerIDs[i]].err
          \/ /\ pc' = "returned"
             /\ err' = "failed to get player details"
             /\ ctxDone
             /\ playerDetails' = <<>>
      ]_vars

\* one of two fetches failed: the function has returned the context's error
\* and the details of the other player, which it had collected, are gone
C26_Witness ==
    /\ pc = "returned"
    /\ err = "failed to get player details"
    /\ Len(playerIDs) = 2
    /\ Len(players) = 1
    /\ \E i \in 1..2 : oracle.details[playerIDs[i]].err
    /\ playerDetails = <<>>

\* the MatchURLs (URLs) of a sequence of records, in order
URLsOf(records) == [i \in DOMAIN records |-> records[i].MatchURL]

\* C27: the batch handed to BatchInsertMatches has no two records with the
\* same MatchURL and every MatchURL in it is one of the deduplicated
\* locators that discovery returned; the same holds at each step before it:
\* of the row tables collected and of the Matches assembled
C27_BatchURLsUniqueAndDiscovered ==
    /\ NoDup(uniqueMatchLinks)
    /\ NoDup([i \in DOMAIN allMatches |-> allMatches[i].URL])
    /\ \A i \in DOMAIN allMatches : allMatches[i].URL \in Range(uniqueMatchLinks)
    /\ NoDup(URLsOf(matches))
    /\ Range(URLsOf(matches)) \subseteq {allMatches[i].URL : i \in DOMAIN allMatches}
    /\ NoDup(URLsOf(avgMatchStats))
    /\ Range(URLsOf(avgMatchStats)) \subseteq Range(URLsOf(matches))
    /\ Range(URLsOf(avgMatchStats)) \subseteq Range(uniqueMatchLinks)

\* a locator was found twice by discovery and the batch about to be written
\* has two records, one of them for that locator
C27_Witness ==
    /\ pc = "insert"
    /\ Len(avgMatchStats) = 2
    /\ \E i, j \in DOMAIN matchLinks :
          /\ i # j
          /\ matchLinks[i] = matchLinks[j]
          /\ matchLinks[i] \in Range(URLsOf(avgMatchStats))

\* C28: what a run produces is, as a set, a function of what the external
\* collaborators answer, whatever the interleaving of the workers: the
\* profile locators are those of the requested players, the deduplicated
\* locators are the links of the profiles that load, the Matches are those
\* of the pages that load and are no tie (none at all when one of them has a
\* short row among its first 10 non-empty rows and ends the process), and
\* the records are those of the Matches
C28_SetsIndependentOfInterleaving ==
    LET ids      == Range(TopPlayers(oracle.top.ranking, startPos, faceitLimit))
        profiles == {leetifyUserURL \o oracle.details[id].player.SteamID64 : id \in ids}
        links    == UNION {Range(oracle.profile[u].links) :
                              u \in {v \in profiles : ~oracle.profile[v].err}}
        tables   == {Table(m, oracle.match[m].data) :
                        m \in {l \in links : ~oracle.match[l].err /\ ~IsTie(oracle.match[l])}}
        panics   == \E t \in tables : AssembleOne(t).kind = "panic"
        ms       == IF panics THEN {}
                    ELSE {AssembleOne(t).match :
                             t \in {u \in tables : AssembleOne(u).kind = "match"}}
        stats    == {AverageOne(m).stats : m \in {x \in ms : AverageOne(x).kind = "stats"}}
    IN  /\ pool \in {"links", "matches"} => Range(leetifyURLs) = profiles
        /\ LinkStageOver => Range(uniqueMatchLinks) = links
        /\ MatchStageOver => Range(allMatches) = tables
        /\ (MatchStageOver /\ pc # "assemble") =>
              /\ pc = "panic_index" <=> panics
              /\ Range(matches) = ms
        /\ AggregationDone => Range(avgMatchStats) = stats

\* the records of a run are in the order m2, m1 although m1 was enqueued
\* before m2
C28_Witness ==
    /\ pc = "insert"
    /\ uniqueMatchLinks = <<"m1", "m2">>
    /\ URLsOf(avgMatchStats) = <<"m2", "m1">>

-----------------------------------------------------------------------------
(* Assembly followed by getAverageMatchStats, on tables of ten rows of      *)
(* eight cells whose cells hold any text                                    *)

\* the tables: ten numeric rows with every name and every ADR cell replaced,
\* ten numeric rows with one cell replaced, or ten rows of one text only
InitFrame ==
    /\ FreshRun
    /\ pc = "assemble"
    /\ oracle = TheWorld
    /\ PoolFinished("matches")
    /\ results = <<>>
    /\ matchLinks = <<>>
    /\ uniqueMatchLinks = <<>>
    /\ LET Columns(base, name, adr) ==
               [r \in 1..10 |-> [base[r] EXCEPT ![1] = name, ![6] = adr]]
           OneText(text) == [r \in 1..10 |-> [c \in 1..8 |-> text]]
       IN  \E t \in {Table("m1", Columns(base, name, adr)) :
                        base \in {GoodData, Rows(10, {}, 1, 3)},
                        name \in {"", "s1mple", "1.0"},
                        adr \in CellTexts \cup {"82.4"}}
                    \cup {Table("m1", SetCell(GoodData, j, k, text)) :
                             j \in 1..10, k \in 1..8, text \in CellTexts} :
           \E u \in {Table("m2", OneText(text)) : text \in CellTexts} :
              allMatches \in {<<t>>, <<t, u>>, <<u>>}
    /\ matches = <<>>

NextFrame == Assemble \/ Aggregate

SpecFrame == InitFrame /\ [][NextFrame]_vars

\* C29: the name and ADR cells take no part in validation or aggregation:
\* assembly emits one Match for every table of ten rows of eight cells
\* whatever the cells hold, and the records of getAverageMatchStats are those
\* of the tables whose 6 aggregated cells parse for all 10 rows, each with
\* the 12 averages of the same table with every name and every ADR cell
\* replaced by a fixed text
C29_NameAndADRTakeNoPart ==
    LET Neutral(t) ==
            Table(t.URL, [r \in DOMAIN t.Data |-> [t.Data[r] EXCEPT ![1] = "x", ![6] = "0"]])
        Rec(m) == [MatchURL |-> m.MatchURL,
                   Win  |-> [k \in 1..6 |-> TeamAverage(m, 1, k)],
                   Loss |-> [k \in 1..6 |-> TeamAverage(m, 2, k)]]
        good == SelectSeq(allMatches, LAMBDA t : AllParse(ExpectedMatch(Neutral(t))))
    IN  /\ pc # "panic_index"
        /\ pc \in {"aggregate", "insert"} =>
              /\ Len(matches) = Len(allMatches)
              /\ \A i \in DOMAIN matches : matches[i].MatchURL = allMatches[i].URL
        /\ pc = "insert" =>
              avgMatchStats = [i \in 1..Len(good) |-> Rec(ExpectedMatch(Neutral(good[i])))]

\* a table whose names and ADR cells are all empty has its record, and a
\* table without a numeric cell has its Match
C29_Witness ==
    /\ pc = "insert"
    /\ Len(allMatches) = 2
    /\ \A r \in 1..10 : allMatches[1].Data[r][1] = "" /\ allMatches[1].Data[r][6] = ""
    /\ \A r \in 1..10 : \A c \in 1..8 : allMatches[2].Data[r][c] = "bad"
    /\ Len(matches) = 2
    /\ Len(avgMatchStats) = 1
    /\ avgMatchStats[1].MatchURL = allMatches[1].URL

\* C30: scrapeMatchLinksWithWorkers, scrapeMatchesWithWorkers and
\* getAverageMatchStats never return an error: once the discovery stage has
\* begun FetchAndScrape returns from BatchInsertMatches only; when every
\* profile job fails or there is none the discovery stage returns no link,
\* when every page job fails or there is none the extraction stage returns
\* no Match and the run goes on to the insertion, aggregation of no Match
\* gives no record, and BatchInsertMatches of an empty batch on a database
\* that answers leaves the table as it was and returns nil
C30_ScrapingNeverFails ==
    LET everyProfileFails ==
            \A i \in DOMAIN leetifyURLs : oracle.profile[leetifyURLs[i]].err
        everyPageFails ==
            \A i \in DOMAIN uniqueMatchLinks : oracle.match[uniqueMatchLinks[i]].err
    IN  /\ (pool \in {"links", "matches"} /\ pc = "returned") =>
              err \in {"nil", "failed to batch insert"}
        /\ (LinkStageOver /\ everyProfileFails) => uniqueMatchLinks = <<>>
        /\ (MatchStageOver /\ everyPageFails) =>
              /\ allMatches = <<>>
              /\ matches = <<>>
              /\ pc \in {"assemble", "aggregate", "insert", "returned"}
        /\ (AggregationDone /\ matches = <<>>) => avgMatchStats = <<>>
        /\ (pc = "insert" /\ avgMatchStats = <<>>) =>
              BatchInsertMatches(inserted, avgMatchStats, [at |-> "none", k |-> 0])
                 = [db |-> inserted, err |-> FALSE]
        /\ (pc = "returned" /\ pool = "matches" /\ avgMatchStats = <<>>) =>
              inserted = <<>>

\* a run whose match pages all failed to load has inserted the empty batch
\* and returned nil
C30_Witness ==
    /\ pc = "returned"
    /\ err = "nil"
    /\ uniqueMatchLinks # <<>>
    /\ \A i \in DOMAIN uniqueMatchLinks : oracle.match[uniqueMatchLinks[i]].err
    /\ allMatches = <<>>
    /\ avgMatchStats = <<>>
    /\ inserted = <<>>

-----------------------------------------------------------------------------
(* FetchAndScrapeJob: the loop that calls FetchAndScrape for one leaderboard *)
(* page after the other.  The program walks 40 pages of 50 positions; the    *)
(* model walks 3 pages of MaxPlayers positions.  The database outlives an    *)
(* iteration, everything else is made anew by the next call of               *)
(* FetchAndScrape.                                                           *)

leaderboardStart == 0

leaderboardEnd == 3 * MaxPlayers

offset == MaxPlayers

fetchLimit == MaxPlayers

\* the leaderboard answers; its first page holds players whose pages are
\* well formed, its second a player whose details cannot be fetched, its
\* third a player with a match page that has a short row
InitJob ==
    /\ startPos = leaderboardStart
    /\ faceitLimit = fetchLimit
    /\ pc = "getTopPlayers"
    /\ err = "none"
    /\ ctxDone = FALSE
    /\ scrapeCtxDone = FALSE
    /\ NoData
    /\ playersTable = <<>>
    /\ openTabs = 0
    /\ NoPool
    /\ attempts = <<>>
    /\ oracle = [TheWorld EXCEPT !.top.ranking =
                    <<PlayerId(1), PlayerId(2), PlayerId(5), PlayerId(3),
                      PlayerId(7), PlayerId(4)>>]

\* FetchAndScrape has returned, its error if any is logged, and
\* startPos += offset leaves startPos < leaderboardEnd: the next call
JobIterate ==
    /\ pc = "returned"
    /\ startPos + offset < leaderboardEnd
    /\ startPos' = startPos + offset
    /\ pc' = "getTopPlayers"
    /\ err' = "none"
    /\ ctxDone' = FALSE
    /\ playerIDs' = <<>>
    /\ playerDetails' = <<>>
    /\ upserted' = <<>>
    /\ leetifyURLs' = <<>>
    /\ players' = <<>>
    /\ matchLinks' = <<>>
    /\ uniqueMatchLinks' = <<>>
    /\ allMatches' = <<>>
    /\ matches' = <<>>
    /\ avgMatchStats' = <<>>
    /\ pool' = "none"
    /\ enq' = 0
    /\ jobs' = <<>>
    /\ jobsClosed' = FALSE
    /\ results' = <<>>
    /\ resultsClosed' = FALSE
    /\ idle' = 0
    /\ busy' = EmptyBag
    /\ exited' = 0
    /\ wg' = 0
    /\ closer' = "none"
    /\ attempts' = <<>>
    /\ UNCHANGED <<faceitLimit, scrapeCtxDone, oracle, playersTable, openTabs, inserted>>

\* the loop condition fails after the last call: return nil
JobReturn ==
    /\ pc = "returned"
    /\ startPos + offset >= leaderboardEnd
    /\ pc' = "job_returned"
    /\ UNCHANGED <<Params, err, ctxDone, scrapeCtxDone, oracle, DataVars, PoolVars,
                   playersTable, openTabs, attempts>>

NextJob == Next \/ JobIterate \/ JobReturn

\* a goroutine that can run does run, a call that was made returns, and the
\* timer of the 5 minute context fires; getAverageMatchStats, which is always
\* able to run once it is called, returns (stated on its guard)
SpecJob ==
    /\ InitJob
    /\ [][NextJob]_vars
    /\ WF_vars(Deadline \/ GetTopPlayers \/ Enqueue \/ CloseJobs \/ WorkerDequeue
                  \/ (\E job \in BagToSet(busy) : WorkerFinish(job)) \/ WorkerExit
                  \/ CloserClose \/ DetailsRecv \/ DetailsCtxDone \/ DetailsReturn
                  \/ UpsertPlayer \/ StartLinks \/ LinksRecv \/ LinksReturn
                  \/ MatchesRecv \/ MatchesCollected \/ Assemble \/ BatchInsert
                  \/ JobIterate \/ JobReturn)
    /\ WF_vars(/\ pc = "aggregate"
               /\ pc' = "insert"
               /\ avgMatchStats' = <<>>
               /\ UNCHANGED <<Params, playersTable, openTabs, err, ctxDone, scrapeCtxDone,
                              oracle, playerIDs, playerDetails, upserted, leetifyURLs,
                              players, matchLinks, uniqueMatchLinks, allMatches, matches,
                              inserted, PoolVars, attempts>>)

\* C31: FetchAndScrapeJob calls FetchAndScrape once for each offset
\* leaderboardStart, leaderboardStart + offset, ... below leaderboardEnd, in
\* increasing order and with the limit fetchLimit, so that the pages cover
\* the positions without gap or overlap; the next call begins only when the
\* one before has returned, whatever it returned; and the loop always ends
\* with the job returning nil
C31_JobVisitsEveryPageAndReturns ==
    /\ [](/\ startPos \in {leaderboardStart + k * offset : k \in 0..leaderboardEnd}
          /\ startPos < leaderboardEnd
          /\ faceitLimit = fetchLimit
          /\ offset = fetchLimit)
    /\ [][startPos' # startPos =>
             (pc = "returned" /\ pc' = "getTopPlayers" /\ startPos' = startPos + offset)]_vars
    /\ [][(pc' = "job_returned" /\ pc # "job_returned") =>
             (pc = "returned" /\ startPos + offset >= leaderboardEnd)]_vars
    /\ <>(pc = "job_returned")

\* C32: the players are upserted one by one, each stored as soon as its
\* statement has run and never undone, and all of them before discovery
\* starts: while a scraping stage runs every player of the page is stored;
\* when the upsert of the k-th player fails FetchAndScrape returns that
\* error with the k-1 players before it stored, the failing step changes
\* neither table, no discovery call was made, and the table of matches is
\* written by the insertion at the end of a run only
C32_UpsertFailureStopsTheRun ==
    /\ [](LET Stored(i) == PlayerRow(playerDetails[i]) \in Range(playersTable)
          IN  /\ pool \in {"links", "matches"} =>
                    /\ Len(upserted) = Len(playerDetails)
                    /\ \A i \in DOMAIN playerDetails : Stored(i)
              /\ pc = "upsert" => \A i \in 1..Len(upserted) : Stored(i)
              /\ (pc = "returned" /\ err = "create player") =>
                    /\ pool = "details"
                    /\ leetifyURLs = <<>>
                    /\ \A i \in DOMAIN attempts : attempts[i][1] = "details"
                    /\ Len(upserted) < Len(playerDetails)
                    /\ \A i \in 1..Len(upserted) : Stored(i)
                    /\ ~Stored(Len(upserted) + 1)
                    /\ avgMatchStats = <<>>)
    /\ [][/\ (pc # "returned" /\ pc' = "returned" /\ err' = "create player") =>
                (playersTable' = playersTable /\ inserted' = inserted)
          /\ Range(playersTable) \subseteq Range(playersTable')
          /\ inserted' # inserted =>
                (pc = "insert" /\ err' \in {"nil", "failed to batch insert"})]_vars

\* the third page of a job: the first player of the page is stored, the
\* upsert of the second has failed, the records of an earlier page are there
C32_Witness ==
    /\ pc = "returned"
    /\ err = "create player"
    /\ Len(upserted) = 1
    /\ Len(playerDetails) = 2
    /\ PlayerRow(playerDetails[1]) \in Range(playersTable)
    /\ Len(playersTable) = 3
    /\ inserted # <<>>

\* C33: getAverageMatchStats is an order-preserving filter: it returns at
\* most one record per input Match, and its records are those of input
\* Matches at increasing positions, so that their MatchURLs are a
\* subsequence of the MatchURLs of the input
C33_OrderPreservingFilter ==
    pc = "insert" =>
        /\ Len(avgMatchStats) <= Len(matches)
        /\ \E f \in [DOMAIN avgMatchStats -> DOMAIN matches] :
              /\ \A i, j \in DOMAIN avgMatchStats : i < j => f[i] < f[j]
              /\ \A i \in DOMAIN avgMatchStats :
                    avgMatchStats[i].MatchURL = matches[f[i]].MatchURL

\* of four Matches the two in the middle were dropped and the first and the
\* last, of different locators, have their records in the order of the input
C33_Witness ==
    /\ pc = "insert"
    /\ Len(matches) = 4
    /\ Len(avgMatchStats) = 2
    /\ avgMatchStats[1].MatchURL = matches[1].MatchURL
    /\ avgMatchStats[2].MatchURL = matches[4].MatchURL
    /\ matches[1].MatchURL # matches[4].MatchURL

-----------------------------------------------------------------------------
(* getTopPlayers on its own, with limits up to and beyond maxLimit, on a     *)
(* leaderboard long enough to answer every request in full: the identity     *)
(* source answers with as many items as the request asks for, from the        *)
(* position after the offset of the request                                   *)

InitRequest ==
    /\ startPos \in 0..MaxPlayers
    /\ faceitLimit \in 0..(maxLimit + MaxPlayers)
    /\ pc = "getTopPlayers"
    /\ err = "none"
    /\ ctxDone = FALSE
    /\ scrapeCtxDone = FALSE
    /\ \E e \in BOOLEAN :
          oracle = [TheWorld EXCEPT
                       !.top = [err |-> e,
                                ranking |-> [i \in 1..(maxLimit + 2 * MaxPlayers + 1) |->
                                                PlayerId(i)]]]
    /\ NoData
    /\ playersTable = <<>>
    /\ openTabs = 0
    /\ NoPool
    /\ attempts = <<>>

NextRequest == GetTopPlayers

SpecRequest == InitRequest /\ [][NextRequest]_vars

\* C34: getTopPlayersURL asks for 50 items when the limit is greater than 50
\* and for exactly limit items otherwise, and passes the offset through
\* unchanged: the page that getTopPlayers got holds the min(limit, 50)
\* players that follow position offset, so never more than 50
C34_PageRequestCappedAtFifty ==
    pc = "details_send" =>
        LET n == IF faceitLimit > 50 THEN 50 ELSE faceitLimit
        IN  /\ playerIDs = [i \in 1..n |-> oracle.top.ranking[startPos + i]]
            /\ Len(playerIDs) <= 50
            /\ faceitLimit <= 50 => Len(playerIDs) = faceitLimit

\* a request with limit 51 and offset 2 was answered with players 3..52
C34_Witness ==
    /\ pc = "details_send"
    /\ faceitLimit = 51
    /\ startPos = 2
    /\ Len(playerIDs) = 50
    /\ playerIDs[1] = PlayerId(3)
    /\ playerIDs[50] = PlayerId(52)

=============================================================================
